---- MODULE Spec2Model ----
(***************************************************************************)
(* Body-retry state machine of ActorHttpRetryBody (comunica):              *)
(* run() dispatches the request once, createRetryingBody() wraps the       *)
(* response body in one PassThrough output and buffers it per attempt;     *)
(* a stream error or a close before end re-dispatches the request.         *)
(*                                                                         *)
(* Handlers run to completion (one event loop callback = one step); an     *)
(* await in handleStreamError splits it into the steps "until the await"   *)
(* and "after the await".  Source bodies are Node readable streams: they   *)
(* emit data*, then end or error, then close, each event asynchronously.   *)
(***************************************************************************)
EXTENDS Integers, Sequences, FiniteSets, TLC

\* ---------------------------------------------------------------- bounds
MaxRetry == 2
MaxBodyBytes == 2
MaxChunk == 2
MaxCeiling == 1
MaxDelay == 1
MaxLate == 1

\* Marks "no value": maxBytes undefined, currentBody undefined.
Undefined == -1

\* One body per Transport call; one more than the largest attempt limit.
Bodies == 1..(MaxRetry + 2)

\* The j-th byte of the body returned by the i-th Transport call.
Byte(i, j) == <<i, j>>

\* Bytes a+1..b of body i, in source order.
RECURSIVE BytesOf(_, _, _)
BytesOf(i, a, b) == IF a >= b THEN <<>> ELSE <<Byte(i, a + 1)>> \o BytesOf(i, a + 1, b)

\* ---------------------------------------------------------------- errors
\* A failure value: an Error with its message, or any other value (isError
\* FALSE) with msg the text String(value) gives.  converted marks the Error
\* objects made by new Error(String(value)).
NoErr == [isError |-> FALSE, msg |-> <<"none", 0>>, converted |-> FALSE]
SrcErr(i, structured) ==
  [isError |-> structured, msg |-> <<"Body stream error", i>>, converted |-> FALSE]
ClosedDuringRetryErr(i) ==
  [isError |-> TRUE, msg |-> <<"Response body closed before end during body retry", i>>,
   converted |-> FALSE]
ClosedAfterOverflowErr(i) ==
  [isError |-> TRUE,
   msg |-> <<"Response body closed before end after disabling body retry due to maxBytes", i>>,
   converted |-> FALSE]
RetryFailedErr(k) ==
  [isError |-> TRUE, msg |-> <<"Response body retry failed for url", k>>, converted |-> FALSE]
DispatchErr(k, structured) ==
  [isError |-> structured, msg |-> <<"mediate failed", k>>, converted |-> FALSE]
LogErr(structured) == [isError |-> structured, msg |-> <<"log failed", 0>>, converted |-> FALSE]
WriteAfterEndErr == [isError |-> TRUE, msg |-> <<"write after end", 0>>, converted |-> FALSE]

\* Mutant of NormalizeError: the value is passed on as it is.
NormalizeError_asIs(e) == e

\* error instanceof Error ? error : new Error(String(error))
NormalizeError(e) ==
  IF e.isError THEN e ELSE [isError |-> TRUE, msg |-> e.msg, converted |-> TRUE]

\* ---------------------------------------------------------------- state
VARIABLES
  retryCount,          \* KeysHttp.httpRetryBodyCount
  retryDelayFallback,  \* KeysHttp.httpRetryBodyDelayFallback ?? 0
  maxBytes,            \* KeysHttp.httpRetryBodyMaxBytes, Undefined when absent
  reqAborted,          \* action.init?.signal?.aborted
  ctxAborted,          \* context.get(KeysHttp.httpAbortSignal)?.aborted
  runPc,               \* position of run(): start, mediating, wrapped, unwrapped, rejected
  retryPc,             \* position of handleStreamError(): idle, sleeping, mediating
  mediateCalls,        \* number of mediatorHttp.mediate calls made so far
  attempts,
  done,
  retrying,
  currentBody,
  bufferedBytes,
  chunks,              \* the chunk list of the latest pipeBody call
  overflowHandled,     \* overflowHandled of the latest pipeBody call
  bodyEnded,           \* bodyEnded of the latest switch to streaming
  body,                \* the source streams, by Transport call
  output,              \* the PassThrough exposed to the consumer
  cancelled,           \* history: the consumer destroyed the output
  logFailed,           \* history: which log call threw: none, debug, warn, skip
  gate,                \* the action handed to test(): budget, method, body, allowUnsafe
  gateResult,          \* what test() returned: none, pass, budget, method, payload
  responses,           \* history: the outcome of each mediate call, by call number
  inFlight,            \* the response the pending Transport call of run() resolves to
  dispatched,          \* history: the action handed to each mediate call, by call number
  sleeps,              \* history: the duration of each sleep() awaited, in order
  late                 \* history: the number of events superseded sources emitted late

cfgVars == <<retryCount, retryDelayFallback, maxBytes, gate, gateResult>>
vars == <<retryCount, retryDelayFallback, maxBytes, reqAborted, ctxAborted, runPc, retryPc,
          mediateCalls, attempts, done, retrying, currentBody, bufferedBytes, chunks,
          overflowHandled, bodyEnded, body, output, cancelled, logFailed,
          gate, gateResult, responses, inFlight, dispatched, sleeps, late>>

BufferingListeners == {"data", "error", "end", "close"}
StreamingListeners == {"onceEnd", "onceError", "onceClose", "pipe"}

NoBodyYet ==
  [created |-> FALSE, emitted |-> 0, ended |-> FALSE, errored |-> FALSE,
   destroyed |-> FALSE, closed |-> FALSE, paused |-> FALSE, lsn |-> {}]

FreshBody == [NoBodyYet EXCEPT !.created = TRUE]

NoResponses == [k \in Bodies |-> "none"]

NoAction == [given |-> FALSE]
NoneDispatched == [k \in Bodies |-> NoAction]

NewOutput ==
  [bytes |-> <<>>, destroyed |-> FALSE, ended |-> FALSE, err |-> NoErr,
   eventsPending |-> FALSE, endCalls |-> 0]

\* The mutable state the handlers work on, as one record.
S ==
  [retryPc |-> retryPc, mediateCalls |-> mediateCalls, attempts |-> attempts, done |-> done,
   retrying |-> retrying, currentBody |-> currentBody, bufferedBytes |-> bufferedBytes,
   chunks |-> chunks, overflowHandled |-> overflowHandled, bodyEnded |-> bodyEnded,
   body |-> body, output |-> output, logFailed |-> logFailed,
   responses |-> responses, dispatched |-> dispatched, sleeps |-> sleeps,
   late |-> late]

Becomes(s) ==
  /\ retryPc' = s.retryPc
  /\ mediateCalls' = s.mediateCalls
  /\ attempts' = s.attempts
  /\ done' = s.done
  /\ retrying' = s.retrying
  /\ currentBody' = s.currentBody
  /\ bufferedBytes' = s.bufferedBytes
  /\ chunks' = s.chunks
  /\ overflowHandled' = s.overflowHandled
  /\ bodyEnded' = s.bodyEnded
  /\ body' = s.body
  /\ output' = s.output
  /\ logFailed' = s.logFailed
  /\ responses' = s.responses
  /\ dispatched' = s.dispatched
  /\ sleeps' = s.sleeps
  /\ late' = s.late

attemptLimit == retryCount + 1

\* ------------------------------------------------ the output (PassThrough)
isOutputClosed(s) == s.done \/ s.output.destroyed

\* body.destroy(): a destroyed stream emits no more data, end or error; its
\* 'close' follows asynchronously (SrcClose).
destroyBody(s, i) == [s EXCEPT !.body[i].destroyed = TRUE]

destroyCurrentBody(s) ==
  IF s.currentBody # Undefined THEN destroyBody(s, s.currentBody) ELSE s

\* output.destroy(err): a no-op on a destroyed stream; else the stream is
\* destroyed at once and its 'error'/'close' events are emitted on a later tick.
outputDestroy(s, e) ==
  IF s.output.destroyed
    THEN s
    ELSE [s EXCEPT !.output.destroyed = TRUE, !.output.err = e, !.output.eventsPending = TRUE]

\* output.write(chunk): nothing is accepted after destroy; a write after end
\* errors the stream.
outputWrite(s, chunk) ==
  IF s.output.destroyed THEN s
  ELSE IF s.output.ended THEN outputDestroy(s, WriteAfterEndErr)
  ELSE [s EXCEPT !.output.bytes = @ \o chunk]

\* output.end()
outputEnd(s) ==
  IF s.output.destroyed \/ s.output.ended
    THEN s
    ELSE [s EXCEPT !.output.ended = TRUE, !.output.endCalls = @ + 1]

\* output.on('close') and output.on('error'): the same two statements.
onOutputClosed(s) == destroyCurrentBody([s EXCEPT !.done = TRUE])

\* ------------------------------------------------------------ pipeBody
\* chunks, overflowHandled and bodyEnded are locals of a pipeBody call.  The
\* model keeps those of the latest call only: the listeners of every earlier
\* call are removed before pipeBody is called again (LatestClosureOnly).

\* Mutant of cleanup: the 'data' listener stays registered.
cleanup_keepsData(s, i) == [s EXCEPT !.body[i].lsn = @ \ {"error", "end", "close"}]

\* Mutant of cleanup: the 'close' listener stays registered.
cleanup_keepsClose(s, i) == [s EXCEPT !.body[i].lsn = @ \ {"data", "error", "end"}]

cleanup(s, i) == [s EXCEPT !.body[i].lsn = @ \ BufferingListeners]

\* Mutant of pipeBody: the chunk list survives from one attempt to the next.
pipeBody_keepsChunks(s, i) ==
  [s EXCEPT !.currentBody = i,
            !.bufferedBytes = 0,
            !.overflowHandled = FALSE,
            !.body[i].lsn = @ \cup BufferingListeners]

\* Mutant of pipeBody: the byte count runs on from one attempt to the next.
pipeBody_keepsCount(s, i) ==
  [s EXCEPT !.currentBody = i,
            !.chunks = <<>>,
            !.overflowHandled = FALSE,
            !.body[i].lsn = @ \cup BufferingListeners]

pipeBody(s, i) ==
  [s EXCEPT !.currentBody = i,
            !.bufferedBytes = 0,
            !.chunks = <<>>,
            !.overflowHandled = FALSE,
            !.body[i].lsn = @ \cup BufferingListeners]

\* for (const chunk_ of chunks) { if (isOutputClosed()) return; output.write(chunk_); }
\* The second component says whether the loop ran to its end.
RECURSIVE flushOverflow(_, _)
flushOverflow(s, cs) ==
  IF cs = <<>> THEN <<s, TRUE>>
  ELSE IF isOutputClosed(s) THEN <<s, FALSE>>
  ELSE flushOverflow(outputWrite(s, Head(cs)), Tail(cs))

\* The streaming-mode listeners and body.pipe(output), which resumes the body.
startStreaming(s, i) ==
  [s EXCEPT !.chunks = <<>>,
            !.bodyEnded = FALSE,
            !.body[i].lsn = @ \cup StreamingListeners,
            !.body[i].paused = FALSE]

\* Mutant of onData: every chunk is also written to the output as it arrives.
onData_writesThrough(s, i, chunk, logOk) ==
  outputWrite([s EXCEPT !.bufferedBytes = @ + Len(chunk), !.chunks = Append(@, chunk)], chunk)

\* Mutant of onData: at overflow the buffered chunks are not written to the
\* output before the body is piped.
onData_skipsFlush(s, i, chunk, logOk) ==
  LET s1 == [s EXCEPT !.bufferedBytes = @ + Len(chunk), !.chunks = Append(@, chunk)]
  IN IF ~s1.overflowHandled /\ maxBytes # Undefined /\ s1.bufferedBytes > maxBytes
       THEN LET s2 == cleanup([s1 EXCEPT !.overflowHandled = TRUE,
                                         !.body[i].paused = TRUE], i)
            IN IF ~logOk THEN [s2 EXCEPT !.logFailed = "warn"]
               ELSE IF isOutputClosed(s2) THEN s2
               ELSE startStreaming(s2, i)
       ELSE s1

\* Mutant of onData: the ceiling is tested with >=.
onData_tripsAtCeiling(s, i, chunk, logOk) ==
  LET s1 == [s EXCEPT !.bufferedBytes = @ + Len(chunk), !.chunks = Append(@, chunk)]
  IN IF ~s1.overflowHandled /\ maxBytes # Undefined /\ s1.bufferedBytes >= maxBytes
       THEN LET s2 == cleanup([s1 EXCEPT !.overflowHandled = TRUE,
                                         !.body[i].paused = TRUE], i)
                fl == flushOverflow(s2, s2.chunks)
            IN IF ~logOk THEN [s2 EXCEPT !.logFailed = "warn"]
               ELSE IF ~fl[2] THEN fl[1]
               ELSE startStreaming(fl[1], i)
       ELSE s1

onData(s, i, chunk, logOk) ==
  LET s1 == [s EXCEPT !.bufferedBytes = @ + Len(chunk), !.chunks = Append(@, chunk)]
  IN IF ~s1.overflowHandled /\ maxBytes # Undefined /\ s1.bufferedBytes > maxBytes
       THEN LET s2 == cleanup([s1 EXCEPT !.overflowHandled = TRUE,
                                         !.body[i].paused = TRUE], i)
                fl == flushOverflow(s2, s2.chunks)
            IN IF ~logOk THEN [s2 EXCEPT !.logFailed = "warn"]
               ELSE IF ~fl[2] THEN fl[1]
               ELSE startStreaming(fl[1], i)
       ELSE s1

RECURSIVE writeAll(_, _)
writeAll(s, cs) == IF cs = <<>> THEN s ELSE writeAll(outputWrite(s, Head(cs)), Tail(cs))

\* Mutant of onEnd: the buffer is emptied before it is written.
onEnd_dropsBuffer(s, i) ==
  LET s1 == cleanup(s, i)
  IN IF isOutputClosed(s1)
       THEN [s1 EXCEPT !.done = TRUE]
       ELSE outputEnd([s1 EXCEPT !.chunks = <<>>, !.done = TRUE])

\* Mutant of onEnd: the listeners stay registered and done is not set.
onEnd_staysListening(s, i) ==
  IF isOutputClosed(s)
    THEN s
    ELSE outputEnd([writeAll(s, s.chunks) EXCEPT !.chunks = <<>>])

onEnd(s, i) ==
  LET s1 == cleanup(s, i)
  IN IF isOutputClosed(s1)
       THEN [s1 EXCEPT !.done = TRUE]
       ELSE outputEnd([writeAll(s1, s1.chunks) EXCEPT !.chunks = <<>>, !.done = TRUE])

\* ---------------------------------------------------- handleStreamError
\* Mutant of mediatedAction: the action is handed on as it came.
mediatedAction_keepsCount(a) == [given |-> TRUE, action |-> a]

\* { ...action, context: action.context.delete(KeysHttp.httpRetryBodyCount) }
mediatedAction(a) ==
  [given |-> TRUE, action |-> [a EXCEPT !.budget = [given |-> FALSE, value |-> 0]]]

\* await this.mediatorHttp.mediate(...): the call is made, the function suspends.
callMediate(s) ==
  [s EXCEPT !.mediateCalls = @ + 1,
            !.retryPc = "mediating",
            !.dispatched[s.mediateCalls + 1] = mediatedAction(gate)]

\* finally { retrying = false; } and the end of the async function.
finishRetry(s) == [s EXCEPT !.retrying = FALSE, !.retryPc = "idle"]

\* Mutant of beforeMediate: the output is not looked at again after the sleep.
beforeMediate_ignoresClose(s) == callMediate(s)

\* Mutant of beforeMediate: the abort signals are looked at again after the
\* sleep, and the retry is given up when one is active.
beforeMediate_consultsAbort(s) ==
  IF isOutputClosed(s) \/ reqAborted \/ ctxAborted THEN finishRetry(s) ELSE callMediate(s)

\* From the sleep's end (or from destroyCurrentBody when there is no delay)
\* to the await of mediate.
beforeMediate(s) == IF isOutputClosed(s) THEN finishRetry(s) ELSE callMediate(s)

\* Mutant of sleep: the promise is resolved already, the retry goes on at once.
sleep_returnsAtOnce(s, ms) == beforeMediate(s)

\* await ActorHttpRetryBody.sleep(ms), ms being positive: a timer of ms is set
\* and the function suspends until it fires (RetryDelayElapsed).
sleep(s, ms) == [s EXCEPT !.retryPc = "sleeping", !.sleeps = Append(@, ms)]

\* Mutant of handleStreamError: the limit test is attempts > attemptLimit.
handleStreamError_oneTooMany(s, e, logOk, logErrStructured) ==
  IF s.retrying \/ isOutputClosed(s) THEN s
  ELSE IF reqAborted \/ ctxAborted THEN outputDestroy(s, NormalizeError(e))
  ELSE IF s.attempts > attemptLimit THEN outputDestroy(s, NormalizeError(e))
  ELSE LET s1 == [s EXCEPT !.retrying = TRUE, !.attempts = @ + 1]
       IN IF ~logOk
            THEN outputDestroy([s1 EXCEPT !.logFailed = "debug"],
                               NormalizeError(LogErr(logErrStructured)))
            ELSE LET s2 == destroyCurrentBody(s1)
                 IN IF retryDelayFallback > 0
                      THEN sleep(s2, retryDelayFallback)
                      ELSE beforeMediate(s2)

\* Mutant of handleStreamError: the limit test is attempts + 1 >= attemptLimit.
handleStreamError_oneTooFew(s, e, logOk, logErrStructured) ==
  IF s.retrying \/ isOutputClosed(s) THEN s
  ELSE IF reqAborted \/ ctxAborted THEN outputDestroy(s, NormalizeError(e))
  ELSE IF s.attempts + 1 >= attemptLimit THEN outputDestroy(s, NormalizeError(e))
  ELSE LET s1 == [s EXCEPT !.retrying = TRUE, !.attempts = @ + 1]
       IN IF ~logOk
            THEN outputDestroy([s1 EXCEPT !.logFailed = "debug"],
                               NormalizeError(LogErr(logErrStructured)))
            ELSE LET s2 == destroyCurrentBody(s1)
                 IN IF retryDelayFallback > 0
                      THEN sleep(s2, retryDelayFallback)
                      ELSE beforeMediate(s2)

\* Mutant of handleStreamError: only the request's abort signal is consulted.
handleStreamError_requestSignalOnly(s, e, logOk, logErrStructured) ==
  IF s.retrying \/ isOutputClosed(s) THEN s
  ELSE IF reqAborted THEN outputDestroy(s, NormalizeError(e))
  ELSE IF s.attempts >= attemptLimit THEN outputDestroy(s, NormalizeError(e))
  ELSE LET s1 == [s EXCEPT !.retrying = TRUE, !.attempts = @ + 1]
       IN IF ~logOk
            THEN outputDestroy([s1 EXCEPT !.logFailed = "debug"],
                               NormalizeError(LogErr(logErrStructured)))
            ELSE LET s2 == destroyCurrentBody(s1)
                 IN IF retryDelayFallback > 0
                      THEN sleep(s2, retryDelayFallback)
                      ELSE beforeMediate(s2)

\* Mutant of handleStreamError: a failure of the log call is not passed on to
\* the output.
handleStreamError_swallowsLogFailure(s, e, logOk, logErrStructured) ==
  IF s.retrying \/ isOutputClosed(s) THEN s
  ELSE IF reqAborted \/ ctxAborted THEN outputDestroy(s, NormalizeError(e))
  ELSE IF s.attempts >= attemptLimit THEN outputDestroy(s, NormalizeError(e))
  ELSE LET s1 == [s EXCEPT !.retrying = TRUE, !.attempts = @ + 1]
       IN IF ~logOk
            THEN [s1 EXCEPT !.logFailed = "debug"]
            ELSE LET s2 == destroyCurrentBody(s1)
                 IN IF retryDelayFallback > 0
                      THEN sleep(s2, retryDelayFallback)
                      ELSE beforeMediate(s2)

\* Mutant of handleStreamError: the failed source is not destroyed before the
\* retry.
handleStreamError_keepsSource(s, e, logOk, logErrStructured) ==
  IF s.retrying \/ isOutputClosed(s) THEN s
  ELSE IF reqAborted \/ ctxAborted THEN outputDestroy(s, NormalizeError(e))
  ELSE IF s.attempts >= attemptLimit THEN outputDestroy(s, NormalizeError(e))
  ELSE LET s1 == [s EXCEPT !.retrying = TRUE, !.attempts = @ + 1]
       IN IF ~logOk
            THEN outputDestroy([s1 EXCEPT !.logFailed = "debug"],
                               NormalizeError(LogErr(logErrStructured)))
            ELSE IF retryDelayFallback > 0
                   THEN sleep(s1, retryDelayFallback)
                   ELSE beforeMediate(s1)

\* Mutant of handleStreamError: a failure is acted on also while a retry is in
\* progress.
handleStreamError_reentrant(s, e, logOk, logErrStructured) ==
  IF isOutputClosed(s) THEN s
  ELSE IF reqAborted \/ ctxAborted THEN outputDestroy(s, NormalizeError(e))
  ELSE IF s.attempts >= attemptLimit THEN outputDestroy(s, NormalizeError(e))
  ELSE LET s1 == [s EXCEPT !.retrying = TRUE, !.attempts = @ + 1]
       IN IF ~logOk
            THEN outputDestroy([s1 EXCEPT !.logFailed = "debug"],
                               NormalizeError(LogErr(logErrStructured)))
            ELSE LET s2 == destroyCurrentBody(s1)
                 IN IF retryDelayFallback > 0
                      THEN sleep(s2, retryDelayFallback)
                      ELSE beforeMediate(s2)

\* handleStreamError up to its first await, with the .catch of onError/onClose.
handleStreamError(s, e, logOk, logErrStructured) ==
  IF s.retrying \/ isOutputClosed(s) THEN s
  ELSE IF reqAborted \/ ctxAborted THEN outputDestroy(s, NormalizeError(e))
  ELSE IF s.attempts >= attemptLimit THEN outputDestroy(s, NormalizeError(e))
  ELSE LET s1 == [s EXCEPT !.retrying = TRUE, !.attempts = @ + 1]
       IN IF ~logOk
            THEN outputDestroy([s1 EXCEPT !.logFailed = "debug"],
                               NormalizeError(LogErr(logErrStructured)))
            ELSE LET s2 == destroyCurrentBody(s1)
                 IN IF retryDelayFallback > 0
                      THEN sleep(s2, retryDelayFallback)
                      ELSE beforeMediate(s2)

onError(s, i, e, logOk, logErrStructured) ==
  LET s1 == cleanup(s, i)
  IN IF isOutputClosed(s1)
       THEN [s1 EXCEPT !.done = TRUE]
       ELSE handleStreamError(s1, e, logOk, logErrStructured)

\* Mutant of onClose: a close before end is terminal instead of retried.
onClose_terminal(s, i, logOk, logErrStructured) ==
  LET s1 == cleanup(s, i)
  IN IF isOutputClosed(s1)
       THEN [s1 EXCEPT !.done = TRUE]
       ELSE outputDestroy(s1, ClosedDuringRetryErr(i))

onClose(s, i, logOk, logErrStructured) ==
  LET s1 == cleanup(s, i)
  IN IF isOutputClosed(s1)
       THEN [s1 EXCEPT !.done = TRUE]
       ELSE handleStreamError(s1, ClosedDuringRetryErr(i), logOk, logErrStructured)

\* Mutant of afterMediate: the output is not looked at again after the await.
afterMediate_promotesAnyway(s, k, resp, errStructured) ==
  IF resp = "reject"
    THEN finishRetry(outputDestroy(s, NormalizeError(DispatchErr(k, errStructured))))
  ELSE IF resp \in {"notok", "nobody"}
    THEN finishRetry(outputDestroy(s, RetryFailedErr(k)))
  ELSE finishRetry(pipeBody([s EXCEPT !.body[k] = FreshBody], k))

\* Mutant of afterMediate: the body of a response that arrives after the output
\* closed is left as it is.
afterMediate_keepsOrphan(s, k, resp, errStructured) ==
  IF resp = "reject"
    THEN finishRetry(outputDestroy(s, NormalizeError(DispatchErr(k, errStructured))))
  ELSE IF resp \in {"notok", "nobody"}
    THEN finishRetry(outputDestroy(s, RetryFailedErr(k)))
  ELSE LET s1 == [s EXCEPT !.body[k] = FreshBody]
       IN IF isOutputClosed(s1)
            THEN finishRetry(s1)
            ELSE finishRetry(pipeBody(s1, k))

\* Mutant of afterMediate: a response without body ends the retry silently.
afterMediate_ignoresNoBody(s, k, resp, errStructured) ==
  IF resp = "reject"
    THEN finishRetry(outputDestroy(s, NormalizeError(DispatchErr(k, errStructured))))
  ELSE IF resp = "notok"
    THEN finishRetry(outputDestroy(s, RetryFailedErr(k)))
  ELSE IF resp = "nobody"
    THEN finishRetry(s)
  ELSE LET s1 == [s EXCEPT !.body[k] = FreshBody]
       IN IF isOutputClosed(s1)
            THEN finishRetry(destroyBody(s1, k))
            ELSE finishRetry(pipeBody(s1, k))

\* Mutant of afterMediate: a rejected Transport call is made again while the
\* attempt limit allows it.
afterMediate_retriesRejection(s, k, resp, errStructured) ==
  IF resp = "reject"
    THEN IF s.attempts < attemptLimit
           THEN callMediate([s EXCEPT !.attempts = @ + 1])
           ELSE finishRetry(outputDestroy(s, NormalizeError(DispatchErr(k, errStructured))))
  ELSE IF resp \in {"notok", "nobody"}
    THEN finishRetry(outputDestroy(s, RetryFailedErr(k)))
  ELSE LET s1 == [s EXCEPT !.body[k] = FreshBody]
       IN IF isOutputClosed(s1)
            THEN finishRetry(destroyBody(s1, k))
            ELSE finishRetry(pipeBody(s1, k))

\* handleStreamError after the await of mediate; k is the Transport call.
afterMediate(s, k, resp, errStructured) ==
  IF resp = "reject"
    THEN finishRetry(outputDestroy(s, NormalizeError(DispatchErr(k, errStructured))))
  ELSE IF resp \in {"notok", "nobody"}
    THEN finishRetry(outputDestroy(s, RetryFailedErr(k)))
  ELSE LET s1 == [s EXCEPT !.body[k] = FreshBody]
       IN IF isOutputClosed(s1)
            THEN finishRetry(destroyBody(s1, k))
            ELSE finishRetry(pipeBody(s1, k))

\* pipeBody(body) for a body that emits 'error' from inside body.on('error', ...)
\* and 'close' on a later tick (the FakeErroredBody of the unit tests): 'data'
\* and 'error' are registered, onError runs within the registration, and 'end'
\* and 'close' are registered after it has returned.
pipeBodyErroringOnListen(s, i, structured, logOk, logErrStructured) ==
  LET s1 == [s EXCEPT !.currentBody = i,
                      !.bufferedBytes = 0,
                      !.chunks = <<>>,
                      !.overflowHandled = FALSE,
                      !.body[i].lsn = @ \cup {"data", "error"},
                      !.body[i].errored = TRUE,
                      !.body[i].destroyed = TRUE]
      s2 == onError(s1, i, SrcErr(i, structured), logOk, logErrStructured)
  IN [s2 EXCEPT !.body[i].lsn = @ \cup {"end", "close"}]

\* handleStreamError after the await of mediate, the response being ok with
\* such a body.
afterMediateErroringOnListen(s, k, structured, logOk, logErrStructured) ==
  LET s1 == [s EXCEPT !.body[k] = FreshBody]
  IN IF isOutputClosed(s1)
       THEN finishRetry(destroyBody(s1, k))
       ELSE finishRetry(pipeBodyErroringOnListen(s1, k, structured, logOk, logErrStructured))

\* ------------------------------------------------ streaming-mode handlers
onceEnd(s, i) == [s EXCEPT !.bodyEnded = TRUE, !.body[i].lsn = @ \ {"onceEnd"}]

onceError(s, i, e) ==
  outputDestroy([s EXCEPT !.body[i].lsn = @ \ {"onceError"}], NormalizeError(e))

\* Mutant of onceClose: the close is not checked against bodyEnded.
onceClose_ignoresEnd(s, i) ==
  LET s1 == [s EXCEPT !.body[i].lsn = @ \ {"onceClose"}]
  IN IF ~isOutputClosed(s1)
       THEN outputDestroy(s1, ClosedAfterOverflowErr(i))
       ELSE s1

onceClose(s, i) ==
  LET s1 == [s EXCEPT !.body[i].lsn = @ \ {"onceClose"}]
  IN IF ~s1.bodyEnded /\ ~isOutputClosed(s1)
       THEN outputDestroy(s1, ClosedAfterOverflowErr(i))
       ELSE s1

\* body.pipe(output): each chunk is written to the output, 'end' ends it.
pipeData(s, i, chunk) == outputWrite(s, chunk)
pipeEnd(s, i) == outputEnd([s EXCEPT !.body[i].lsn = @ \ {"pipe"}])


\* ----------------------------------------------------------------- test
\* A method name is a sequence of characters, so that toUpperCase() is a
\* computation on it.
LowerChars == <<"a", "b", "c", "d", "e", "f", "g", "h", "i", "j", "k", "l", "m",
                "n", "o", "p", "q", "r", "s", "t", "u", "v", "w", "x", "y", "z">>
UpperChars == <<"A", "B", "C", "D", "E", "F", "G", "H", "I", "J", "K", "L", "M",
                "N", "O", "P", "Q", "R", "S", "T", "U", "V", "W", "X", "Y", "Z">>

toUpperCaseChar(c) ==
  IF \E k \in 1..Len(LowerChars) : LowerChars[k] = c
    THEN UpperChars[CHOOSE k \in 1..Len(LowerChars) : LowerChars[k] = c]
    ELSE c

toUpperCase(m) == [k \in 1..Len(m) |-> toUpperCaseChar(m[k])]

\* The methods tried: each idempotent name in some letter case, three
\* names that are not idempotent, and the empty string.
Methods ==
  {<<"G", "E", "T">>, <<"g", "e", "t">>, <<"H", "e", "a", "d">>, <<"P", "U", "T">>,
   <<"d", "e", "l", "e", "t", "e">>, <<"O", "P", "T", "I", "O", "N", "S">>,
   <<"t", "r", "a", "c", "E">>, <<"P", "O", "S", "T">>, <<"p", "o", "s", "t">>,
   <<"P", "A", "T", "C", "H">>, <<"G", "E", "T", "S">>, <<>>}

\* What a request body can be; "stream" is a ReadableStream or a Node Readable.
BodyKinds ==
  {"null", "string", "URLSearchParams", "FormData", "ArrayBuffer", "ArrayBufferView", "Blob",
   "stream"}

Absent == [given |-> FALSE, value |-> 0]
Given(v) == [given |-> TRUE, value |-> v]

\* The actions handed to test(): the retry count of the context, init.method,
\* init.body, the input (a URL string, or a Request with its method and body),
\* and the allowUnsafe entry of the context.
Gates ==
  [budget : {Absent} \cup {Given(n) : n \in -1..MaxRetry},
   initMethod : {[given |-> FALSE, value |-> <<>>]} \cup {Given(m) : m \in Methods},
   initBody : {[given |-> FALSE, value |-> "null"]} \cup {Given(b) : b \in BodyKinds},
   inputIsRequest : BOOLEAN,
   inputMethod : {<<"G", "E", "T">>, <<"P", "O", "S", "T">>},
   inputBody : {"null", "stream"},
   allowUnsafe : {[given |-> FALSE, value |-> FALSE]} \cup {Given(b) : b \in BOOLEAN}]

\* An action with a URL string as input, no init and retry count n.
PlainGet(n) ==
  [budget |-> Given(n),
   initMethod |-> [given |-> FALSE, value |-> <<>>],
   initBody |-> [given |-> FALSE, value |-> "null"],
   inputIsRequest |-> FALSE,
   inputMethod |-> <<"G", "E", "T">>,
   inputBody |-> "null",
   allowUnsafe |-> [given |-> FALSE, value |-> FALSE]]

getRequestMethod(a) ==
  IF a.initMethod.given THEN a.initMethod.value
  ELSE IF a.inputIsRequest THEN a.inputMethod
  ELSE <<"G", "E", "T">>

\* Mutant of isIdempotentMethod: the name is compared as it is written.
isIdempotentMethod_caseSensitive(m) ==
  m \in {<<"G", "E", "T">>, <<"H", "E", "A", "D">>, <<"P", "U", "T">>,
         <<"D", "E", "L", "E", "T", "E">>,
         <<"O", "P", "T", "I", "O", "N", "S">>,
         <<"T", "R", "A", "C", "E">>}

isIdempotentMethod(m) ==
  toUpperCase(m) \in {<<"G", "E", "T">>, <<"H", "E", "A", "D">>, <<"P", "U", "T">>,
                      <<"D", "E", "L", "E", "T", "E">>,
                      <<"O", "P", "T", "I", "O", "N", "S">>,
                      <<"T", "R", "A", "C", "E">>}

isReplayableBody(b) ==
  b \in {"null", "string", "URLSearchParams", "FormData", "ArrayBuffer", "ArrayBufferView",
         "Blob"}

isReplayableRequestBody(a) ==
  IF a.initBody.given THEN isReplayableBody(a.initBody.value)
  ELSE IF a.inputIsRequest /\ a.inputBody # "null" THEN isReplayableBody(a.inputBody)
  ELSE TRUE

\* Mutant of test: allowUnsafe also waives the retry count.
test_unsafeWaivesBudget(a) ==
  LET allowUnsafe == IF a.allowUnsafe.given THEN a.allowUnsafe.value ELSE FALSE
  IN IF (~a.budget.given \/ a.budget.value = 0 \/ a.budget.value < 1) /\ ~allowUnsafe
       THEN "budget"
       ELSE IF ~isIdempotentMethod(getRequestMethod(a)) /\ ~allowUnsafe THEN "method"
       ELSE IF ~isReplayableRequestBody(a) /\ ~allowUnsafe THEN "payload"
       ELSE "pass"

\* test(action): the reason of the failTest, or "pass".
test(a) ==
  IF ~a.budget.given \/ a.budget.value = 0 \/ a.budget.value < 1
    THEN "budget"
    ELSE LET allowUnsafe == IF a.allowUnsafe.given THEN a.allowUnsafe.value ELSE FALSE
         IN IF ~isIdempotentMethod(getRequestMethod(a)) /\ ~allowUnsafe THEN "method"
            ELSE IF ~isReplayableRequestBody(a) /\ ~allowUnsafe THEN "payload"
            ELSE "pass"

\* ------------------------------------------------------------------ run
Responses == {"ok", "notok", "nobody", "reject"}

\* response.headers.get('content-length'): absent, or a string of characters.
NoHeader == [given |-> FALSE, value |-> <<>>]

Digits == <<"0", "1", "2", "3", "4", "5", "6", "7", "8", "9">>
Whitespace == {" ", "\t"}

\* The headers tried: digits at, below and above the ceilings, with leading
\* zeros and with blanks around them, and strings that are not all digits.
ContentLengths ==
  {NoHeader} \cup
  {Given(h) : h \in {<<"0">>, <<"1">>, <<"2">>, <<"1", "0">>, <<"0", "1">>, <<"0", "0", "2">>,
                     <<" ", "2", "\t">>, <<" ", "1">>, <<>>, <<" ">>,
                     <<"2", "a">>, <<"-", "2">>, <<"+", "2">>, <<"2", ".", "0">>,
                     <<"2", " ", "2">>, <<"2", "e", "1">>}}

\* String.prototype.trim()
RECURSIVE trimStart(_)
trimStart(h) == IF h # <<>> /\ Head(h) \in Whitespace THEN trimStart(Tail(h)) ELSE h

RECURSIVE trimEnd(_)
trimEnd(h) ==
  IF h # <<>> /\ h[Len(h)] \in Whitespace THEN trimEnd(SubSeq(h, 1, Len(h) - 1)) ELSE h

trim(h) == trimEnd(trimStart(h))

isDigit(c) == \E k \in 1..Len(Digits) : Digits[k] = c

\* ActorHttpRetryBody.contentLengthRegex.test(h), the regex being /^[0-9]+$/u
contentLengthRegexTest(h) == h # <<>> /\ \A k \in 1..Len(h) : isDigit(h[k])

digitValue(c) == (CHOOSE k \in 1..Len(Digits) : Digits[k] = c) - 1

\* Number(h) for a string of decimal digits
RECURSIVE Number(_)
Number(h) ==
  IF h = <<>> THEN 0 ELSE 10 * Number(SubSeq(h, 1, Len(h) - 1)) + digitValue(h[Len(h)])

\* Lines 52-56: the response is to be returned as it is.
contentLengthExceeds(cl) ==
  /\ maxBytes # Undefined
  /\ cl.given
  /\ LET contentLengthHeader == trim(cl.value)
     IN /\ contentLengthHeader # <<>>
        /\ contentLengthRegexTest(contentLengthHeader)
        /\ Number(contentLengthHeader) > maxBytes

NoneInFlight == [kind |-> "none", contentLength |-> NoHeader]

createRetryingBody(s) == pipeBody([s EXCEPT !.body[1] = FreshBody], 1)

Init ==
  /\ retryCount \in 1..MaxRetry
  /\ retryDelayFallback \in 0..MaxDelay
  /\ maxBytes \in {Undefined} \cup 0..MaxCeiling
  /\ reqAborted = FALSE
  /\ ctxAborted = FALSE
  /\ runPc = "start"
  /\ retryPc = "idle"
  /\ mediateCalls = 0
  /\ attempts = 1
  /\ done = FALSE
  /\ retrying = FALSE
  /\ currentBody = Undefined
  /\ bufferedBytes = 0
  /\ chunks = <<>>
  /\ overflowHandled = FALSE
  /\ bodyEnded = FALSE
  /\ body = [i \in Bodies |-> NoBodyYet]
  /\ output = NewOutput
  /\ cancelled = FALSE
  /\ logFailed = "none"
  /\ gate = PlainGet(retryCount)
  /\ gateResult = "pass"
  /\ responses = NoResponses
  /\ inFlight = NoneInFlight
  /\ dispatched = NoneDispatched
  /\ sleeps = <<>>
  /\ late = 0

\* run() up to the await of mediate (36-44); the call is in flight, and what
\* Transport will answer is resp with content-length header cl.
RunMediate(resp, cl) ==
  /\ runPc = "start"
  /\ runPc' = "mediating"
  /\ inFlight' = [kind |-> resp, contentLength |-> cl]
  /\ Becomes([S EXCEPT !.mediateCalls = @ + 1, !.dispatched[1] = mediatedAction(gate)])
  /\ UNCHANGED <<cfgVars, reqAborted, ctxAborted, cancelled>>

\* Mutant of RunResponse: a response without body is wrapped like any other.
RunResponse_wrapsNoBody(resp, cl, logOk) ==
  /\ runPc = "mediating"
  /\ inFlight = [kind |-> resp, contentLength |-> cl]
  /\ inFlight' = NoneInFlight
  /\ LET s == [S EXCEPT !.responses[1] = resp]
     IN IF resp = "reject"
          THEN runPc' = "rejected" /\ Becomes(s)
          ELSE IF resp = "notok"
            THEN runPc' = "unwrapped" /\ Becomes(s)
          ELSE IF contentLengthExceeds(cl)
            THEN IF logOk
                   THEN runPc' = "unwrapped" /\ Becomes(s)
                   ELSE runPc' = "rejected" /\ Becomes([s EXCEPT !.logFailed = "skip"])
            ELSE runPc' = "wrapped" /\ Becomes(createRetryingBody(s))
  /\ UNCHANGED <<cfgVars, reqAborted, ctxAborted, cancelled>>

\* Mutant of RunResponse: the content-length is compared with >=.
RunResponse_skipsAtCeiling(resp, cl, logOk) ==
  /\ runPc = "mediating"
  /\ inFlight = [kind |-> resp, contentLength |-> cl]
  /\ inFlight' = NoneInFlight
  /\ LET s == [S EXCEPT !.responses[1] = resp]
     IN IF resp = "reject"
          THEN runPc' = "rejected" /\ Becomes(s)
          ELSE IF resp \in {"notok", "nobody"}
            THEN runPc' = "unwrapped" /\ Becomes(s)
          ELSE IF maxBytes # Undefined /\ cl.given /\ contentLengthRegexTest(trim(cl.value))
                    /\ Number(trim(cl.value)) >= maxBytes
            THEN IF logOk
                   THEN runPc' = "unwrapped" /\ Becomes(s)
                   ELSE runPc' = "rejected" /\ Becomes([s EXCEPT !.logFailed = "skip"])
            ELSE runPc' = "wrapped" /\ Becomes(createRetryingBody(s))
  /\ UNCHANGED <<cfgVars, reqAborted, ctxAborted, cancelled>>

\* Mutant of RunResponse: the response to a request that test() would refuse
\* is returned as it is.
RunResponse_skipsUnsafe(resp, cl, logOk) ==
  /\ runPc = "mediating"
  /\ inFlight = [kind |-> resp, contentLength |-> cl]
  /\ inFlight' = NoneInFlight
  /\ LET s == [S EXCEPT !.responses[1] = resp]
     IN IF resp = "reject"
          THEN runPc' = "rejected" /\ Becomes(s)
          ELSE IF resp \in {"notok", "nobody"} \/ test(gate) # "pass"
            THEN runPc' = "unwrapped" /\ Becomes(s)
          ELSE IF contentLengthExceeds(cl)
            THEN IF logOk
                   THEN runPc' = "unwrapped" /\ Becomes(s)
                   ELSE runPc' = "rejected" /\ Becomes([s EXCEPT !.logFailed = "skip"])
            ELSE runPc' = "wrapped" /\ Becomes(createRetryingBody(s))
  /\ UNCHANGED <<cfgVars, reqAborted, ctxAborted, cancelled>>

\* run() from the await of mediate to its end (46-85).  logOk says whether
\* the logWarn of line 57 returns; when it throws, run() throws with it.
RunResponse(resp, cl, logOk) ==
  /\ runPc = "mediating"
  /\ inFlight = [kind |-> resp, contentLength |-> cl]
  /\ inFlight' = NoneInFlight
  /\ LET s == [S EXCEPT !.responses[1] = resp]
     IN IF resp = "reject"
          THEN runPc' = "rejected" /\ Becomes(s)
          ELSE IF resp \in {"notok", "nobody"}
            THEN runPc' = "unwrapped" /\ Becomes(s)
          ELSE IF contentLengthExceeds(cl)
            THEN IF logOk
                   THEN runPc' = "unwrapped" /\ Becomes(s)
                   ELSE runPc' = "rejected" /\ Becomes([s EXCEPT !.logFailed = "skip"])
            ELSE runPc' = "wrapped" /\ Becomes(createRetryingBody(s))
  /\ UNCHANGED <<cfgVars, reqAborted, ctxAborted, cancelled>>

\* ------------------------------------------------- events of the sources
CanEmit(i) ==
  /\ body[i].created
  /\ ~body[i].ended /\ ~body[i].errored /\ ~body[i].destroyed /\ ~body[i].closed

SrcData(i, n, logOk) ==
  /\ CanEmit(i)
  /\ ~body[i].paused
  /\ body[i].lsn \cap {"data", "pipe"} # {}
  /\ body[i].emitted + n <= MaxBodyBytes
  /\ LET chunk == BytesOf(i, body[i].emitted, body[i].emitted + n)
         s0 == [S EXCEPT !.body[i].emitted = @ + n]
         s1 == IF "data" \in s0.body[i].lsn THEN onData(s0, i, chunk, logOk) ELSE s0
         s2 == IF "pipe" \in s0.body[i].lsn THEN pipeData(s1, i, chunk) ELSE s1
     IN Becomes(s2)
  /\ UNCHANGED <<cfgVars, inFlight, reqAborted, ctxAborted, runPc, cancelled>>

SrcEnd(i) ==
  /\ CanEmit(i)
  /\ ~body[i].paused
  /\ LET s0 == [S EXCEPT !.body[i].ended = TRUE, !.body[i].destroyed = TRUE]
         s1 == IF "end" \in s0.body[i].lsn THEN onEnd(s0, i) ELSE s0
         s2 == IF "onceEnd" \in s0.body[i].lsn THEN onceEnd(s1, i) ELSE s1
         s3 == IF "pipe" \in s0.body[i].lsn THEN pipeEnd(s2, i) ELSE s2
     IN Becomes(s3)
  /\ UNCHANGED <<cfgVars, inFlight, reqAborted, ctxAborted, runPc, cancelled>>

\* The source emits 'error'.  A stream made with autoDestroy (the default)
\* is destroyed by its own error; one made without it, or one whose 'error' is
\* emitted by hand as the unit tests do, stays undestroyed until destroy() is
\* called on it.  Either way it emits no data, end or error afterwards.
SrcError(i, structured, autoDestroy, logOk, logErrStructured) ==
  /\ CanEmit(i)
  /\ LET e == SrcErr(i, structured)
         s0 == [S EXCEPT !.body[i].errored = TRUE, !.body[i].destroyed = autoDestroy]
         s1 == IF "error" \in s0.body[i].lsn
                 THEN onError(s0, i, e, logOk, logErrStructured) ELSE s0
         s2 == IF "onceError" \in s0.body[i].lsn THEN onceError(s1, i, e) ELSE s1
     IN Becomes(s2)
  /\ UNCHANGED <<cfgVars, inFlight, reqAborted, ctxAborted, runPc, cancelled>>

SrcClose(i, logOk, logErrStructured) ==
  /\ body[i].created
  /\ ~body[i].closed
  /\ LET s0 == [S EXCEPT !.body[i].closed = TRUE, !.body[i].destroyed = TRUE]
         s1 == IF "close" \in s0.body[i].lsn
                 THEN onClose(s0, i, logOk, logErrStructured) ELSE s0
         s2 == IF "onceClose" \in s0.body[i].lsn THEN onceClose(s1, i) ELSE s1
     IN Becomes(s2)
  /\ UNCHANGED <<cfgVars, inFlight, reqAborted, ctxAborted, runPc, cancelled>>

\* ------------------------------------------------ events of the consumer
ConsumerCancel ==
  /\ runPc = "wrapped"
  /\ ~output.destroyed
  /\ cancelled' = TRUE
  /\ Becomes(outputDestroy(S, NoErr))
  /\ UNCHANGED <<cfgVars, inFlight, reqAborted, ctxAborted, runPc>>

\* The consumer has read an ended output to its end: the stream destroys itself.
OutputFinished ==
  /\ output.ended
  /\ ~output.destroyed
  /\ Becomes([S EXCEPT !.output.destroyed = TRUE, !.output.eventsPending = TRUE])
  /\ UNCHANGED <<cfgVars, inFlight, reqAborted, ctxAborted, runPc, cancelled>>

\* The output's 'error' and 'close' events reach the listeners of lines 295-302.
OutputClosedEvent ==
  /\ output.eventsPending
  /\ Becomes(onOutputClosed([S EXCEPT !.output.eventsPending = FALSE]))
  /\ UNCHANGED <<cfgVars, inFlight, reqAborted, ctxAborted, runPc, cancelled>>

AbortRequest ==
  /\ ~reqAborted
  /\ reqAborted' = TRUE
  /\ Becomes(S)
  /\ UNCHANGED <<cfgVars, inFlight, ctxAborted, runPc, cancelled>>

AbortContext ==
  /\ ~ctxAborted
  /\ ctxAborted' = TRUE
  /\ Becomes(S)
  /\ UNCHANGED <<cfgVars, inFlight, reqAborted, runPc, cancelled>>

\* ------------------------------------------- resumptions of the retry
RetryDelayElapsed ==
  /\ retryPc = "sleeping"
  /\ Becomes(beforeMediate(S))
  /\ UNCHANGED <<cfgVars, inFlight, reqAborted, ctxAborted, runPc, cancelled>>

MediateResponse(resp, errStructured) ==
  /\ retryPc = "mediating"
  /\ Becomes(afterMediate([S EXCEPT !.responses[mediateCalls] = resp],
                          mediateCalls, resp, errStructured))
  /\ UNCHANGED <<cfgVars, inFlight, reqAborted, ctxAborted, runPc, cancelled>>

Next ==
  \/ \E resp \in Responses, cl \in ContentLengths : RunMediate(resp, cl)
  \/ \E resp \in Responses, cl \in ContentLengths, logOk \in BOOLEAN : RunResponse(resp, cl, logOk)
  \/ \E i \in Bodies, n \in 1..MaxChunk, logOk \in BOOLEAN : SrcData(i, n, logOk)
  \/ \E i \in Bodies : SrcEnd(i)
  \/ \E i \in Bodies, st \in BOOLEAN, ad \in BOOLEAN, logOk \in BOOLEAN, ls \in BOOLEAN :
       SrcError(i, st, ad, logOk, ls)
  \/ \E i \in Bodies, logOk \in BOOLEAN, ls \in BOOLEAN : SrcClose(i, logOk, ls)
  \/ ConsumerCancel
  \/ OutputFinished
  \/ OutputClosedEvent
  \/ AbortRequest
  \/ AbortContext
  \/ RetryDelayElapsed
  \/ \E resp \in Responses, st \in BOOLEAN : MediateResponse(resp, st)

Spec == Init /\ [][Next]_vars

\* ------------------------------- sources that error on listener registration
MediateResponseErroringOnListen(structured, logOk, logErrStructured) ==
  /\ retryPc = "mediating"
  /\ Becomes(afterMediateErroringOnListen([S EXCEPT !.responses[mediateCalls] = "ok"],
                                          mediateCalls, structured, logOk, logErrStructured))
  /\ UNCHANGED <<cfgVars, inFlight, reqAborted, ctxAborted, runPc, cancelled>>

NextErroringOnListen ==
  \/ Next
  \/ \E st \in BOOLEAN, logOk \in BOOLEAN, ls \in BOOLEAN :
       MediateResponseErroringOnListen(st, logOk, ls)

\* What the runtime guarantees to happen: a destroyed source emits its
\* 'close', a timer fires, a Transport call completes, and the events of a
\* destroyed output are delivered.  Nothing is assumed of the consumer, of
\* the abort signals, or of what a live source does next.
Fairness ==
  /\ \A i \in Bodies :
       WF_vars(body[i].destroyed /\ \E logOk \in BOOLEAN, ls \in BOOLEAN : SrcClose(i, logOk, ls))
  /\ WF_vars(RetryDelayElapsed)
  /\ WF_vars(\E resp \in Responses, st \in BOOLEAN : MediateResponse(resp, st))
  /\ WF_vars(OutputClosedEvent)

SpecErroringOnListen == Init /\ [][NextErroringOnListen]_vars /\ Fairness

\* ------------------------------------ sources that emit after their release
\* A source whose destroy() does not silence it (the FakeErroredBody of the
\* unit tests has an empty destroy()) can emit any event after the retry has
\* released it.  Source i is superseded: its failure started a retry and
\* destroy() was called on it.
Superseded(i) == body[i].created /\ i < attempts /\ body[i].destroyed

LateData(i, logOk) ==
  /\ Superseded(i)
  /\ late < MaxLate
  /\ LET chunk == <<Byte(i, body[i].emitted + 1)>>
         s0 == [S EXCEPT !.late = @ + 1]
         s1 == IF "data" \in s0.body[i].lsn THEN onData(s0, i, chunk, logOk) ELSE s0
         s2 == IF "pipe" \in s0.body[i].lsn THEN pipeData(s1, i, chunk) ELSE s1
     IN Becomes(s2)
  /\ UNCHANGED <<cfgVars, inFlight, reqAborted, ctxAborted, runPc, cancelled>>

LateEnd(i) ==
  /\ Superseded(i)
  /\ late < MaxLate
  /\ LET s0 == [S EXCEPT !.late = @ + 1]
         s1 == IF "end" \in s0.body[i].lsn THEN onEnd(s0, i) ELSE s0
         s2 == IF "onceEnd" \in s0.body[i].lsn THEN onceEnd(s1, i) ELSE s1
         s3 == IF "pipe" \in s0.body[i].lsn THEN pipeEnd(s2, i) ELSE s2
     IN Becomes(s3)
  /\ UNCHANGED <<cfgVars, inFlight, reqAborted, ctxAborted, runPc, cancelled>>

LateError(i, structured, logOk, logErrStructured) ==
  /\ Superseded(i)
  /\ late < MaxLate
  /\ LET e == SrcErr(i, structured)
         s0 == [S EXCEPT !.late = @ + 1]
         s1 == IF "error" \in s0.body[i].lsn
                 THEN onError(s0, i, e, logOk, logErrStructured) ELSE s0
         s2 == IF "onceError" \in s0.body[i].lsn THEN onceError(s1, i, e) ELSE s1
     IN Becomes(s2)
  /\ UNCHANGED <<cfgVars, inFlight, reqAborted, ctxAborted, runPc, cancelled>>

\* A 'close' emitted once more by a source that has closed already.
LateClose(i, logOk, logErrStructured) ==
  /\ Superseded(i)
  /\ body[i].closed
  /\ late < MaxLate
  /\ LET s0 == [S EXCEPT !.late = @ + 1]
         s1 == IF "close" \in s0.body[i].lsn
                 THEN onClose(s0, i, logOk, logErrStructured) ELSE s0
         s2 == IF "onceClose" \in s0.body[i].lsn THEN onceClose(s1, i) ELSE s1
     IN Becomes(s2)
  /\ UNCHANGED <<cfgVars, inFlight, reqAborted, ctxAborted, runPc, cancelled>>

NextLateEvents ==
  \/ Next
  \/ \E i \in Bodies, logOk \in BOOLEAN : LateData(i, logOk)
  \/ \E i \in Bodies : LateEnd(i)
  \/ \E i \in Bodies, st \in BOOLEAN, logOk \in BOOLEAN, ls \in BOOLEAN :
       LateError(i, st, logOk, ls)
  \/ \E i \in Bodies, logOk \in BOOLEAN, ls \in BOOLEAN : LateClose(i, logOk, ls)

SpecLateEvents == Init /\ [][NextLateEvents]_vars

\* --------------------------------------------------- test, then run
\* The bus hands the action to test() and calls run() only on a pass.
InitGate ==
  /\ gate \in Gates
  /\ gateResult = "none"
  /\ retryCount = (IF gate.budget.given THEN gate.budget.value ELSE Undefined)
  /\ retryDelayFallback = 0
  /\ maxBytes \in {Undefined, MaxCeiling}
  /\ reqAborted = FALSE
  /\ ctxAborted = FALSE
  /\ runPc = "untested"
  /\ retryPc = "idle"
  /\ mediateCalls = 0
  /\ attempts = 1
  /\ done = FALSE
  /\ retrying = FALSE
  /\ currentBody = Undefined
  /\ bufferedBytes = 0
  /\ chunks = <<>>
  /\ overflowHandled = FALSE
  /\ bodyEnded = FALSE
  /\ body = [i \in Bodies |-> NoBodyYet]
  /\ output = NewOutput
  /\ cancelled = FALSE
  /\ logFailed = "none"
  /\ responses = NoResponses
  /\ inFlight = NoneInFlight
  /\ dispatched = NoneDispatched
  /\ sleeps = <<>>
  /\ late = 0

TestGate ==
  /\ runPc = "untested"
  /\ gateResult' = test(gate)
  /\ runPc' = "tested"
  /\ Becomes(S)
  /\ UNCHANGED <<retryCount, retryDelayFallback, maxBytes, gate, reqAborted, ctxAborted,
                 cancelled, inFlight>>

BusRun ==
  /\ runPc = "tested"
  /\ gateResult = "pass"
  /\ runPc' = "start"
  /\ Becomes(S)
  /\ UNCHANGED <<cfgVars, inFlight, reqAborted, ctxAborted, cancelled>>

NextGate ==
  \/ TestGate
  \/ BusRun
  \/ \E resp \in Responses, cl \in ContentLengths : RunMediate(resp, cl)
  \/ \E resp \in Responses, cl \in ContentLengths, logOk \in BOOLEAN : RunResponse(resp, cl, logOk)

SpecGate == InitGate /\ [][NextGate]_vars

\* -------------------------------------------- run without test
\* A caller that invokes run() on an action without having asked test(), as
\* the unit tests of run do.  The actions tried: a plain GET, a POST, a request
\* with a stream as body, and a POST with allowUnsafe set, each with one retry.
DirectGates ==
  {PlainGet(1),
   [PlainGet(1) EXCEPT !.initMethod = Given(<<"P", "O", "S", "T">>)],
   [PlainGet(1) EXCEPT !.initBody = Given("stream")],
   [PlainGet(1) EXCEPT !.initMethod = Given(<<"P", "O", "S", "T">>),
                       !.allowUnsafe = Given(TRUE)]}

InitDirectRun ==
  /\ gate \in DirectGates
  /\ gateResult = "none"
  /\ retryCount = gate.budget.value
  /\ retryDelayFallback \in 0..MaxDelay
  /\ maxBytes \in {Undefined, 0}
  /\ reqAborted = FALSE
  /\ ctxAborted = FALSE
  /\ runPc = "untested"
  /\ retryPc = "idle"
  /\ mediateCalls = 0
  /\ attempts = 1
  /\ done = FALSE
  /\ retrying = FALSE
  /\ currentBody = Undefined
  /\ bufferedBytes = 0
  /\ chunks = <<>>
  /\ overflowHandled = FALSE
  /\ bodyEnded = FALSE
  /\ body = [i \in Bodies |-> NoBodyYet]
  /\ output = NewOutput
  /\ cancelled = FALSE
  /\ logFailed = "none"
  /\ responses = NoResponses
  /\ inFlight = NoneInFlight
  /\ dispatched = NoneDispatched
  /\ sleeps = <<>>
  /\ late = 0

DirectRun ==
  /\ runPc = "untested"
  /\ runPc' = "start"
  /\ Becomes(S)
  /\ UNCHANGED <<cfgVars, inFlight, reqAborted, ctxAborted, cancelled>>

NextDirectRun == DirectRun \/ Next

SpecDirectRun == InitDirectRun /\ [][NextDirectRun]_vars

\* Only the body of the latest pipeBody call carries listeners.
LatestClosureOnly == \A i \in Bodies : body[i].lsn # {} => i = currentBody


\* ================================================================ claims
Wrapped == runPc = "wrapped"

\* All bytes body i has emitted so far, in source order.
EmittedBytes(i) == BytesOf(i, 0, body[i].emitted)

\* A failure of attempt i signalled while it was buffered.
IsBufferingFailureOf(e, i) ==
  e.msg \in {<<"Body stream error", i>>,
             <<"Response body closed before end during body retry", i>>}

FailedWithoutEnd(i) == body[i].created /\ ~body[i].ended /\ (body[i].errored \/ body[i].closed)

\* C1: the bytes the output has received are a prefix of the bytes of one
\* attempt, the current one; no byte of any other attempt is among them.
C1_OutputFromOneAttempt ==
  output.bytes # <<>> =>
    /\ currentBody # Undefined
    /\ \E n \in 1..body[currentBody].emitted : output.bytes = BytesOf(currentBody, 0, n)

\* C1 witness: a first attempt failed after it had buffered bytes, and the
\* output holds the bytes of a later attempt.
C1_Witness ==
  /\ FailedWithoutEnd(1) /\ body[1].emitted > 0
  /\ currentBody # Undefined /\ currentBody > 1
  /\ output.bytes # <<>>

\* C2: while an attempt is buffered the output holds no byte; it holds bytes
\* only once the current source has ended or the byte ceiling was exceeded.
C2_NoByteWhileBuffering ==
  /\ (\E i \in Bodies : "data" \in body[i].lsn) => output.bytes = <<>>
  /\ output.bytes # <<>> =>
       currentBody # Undefined /\ (overflowHandled \/ body[currentBody].ended)

\* C2 witness: the current attempt has buffered chunks and is still buffered.
C2_Witness ==
  /\ currentBody # Undefined
  /\ "data" \in body[currentBody].lsn
  /\ Len(chunks) = 2

\* C3: when attempt k ends cleanly while buffered (attempts 1..k-1 having
\* failed, the consumer not having cancelled), the output holds exactly the
\* bytes of attempt k in source order and is ended once, and Transport has
\* been invoked exactly k times.
C3_CleanEndDeliversAttempt ==
  /\ (output.ended /\ ~overflowHandled) =>
       /\ currentBody = attempts
       /\ mediateCalls = attempts
       /\ body[attempts].ended
       /\ output.bytes = EmittedBytes(attempts)
       /\ output.endCalls = 1
       /\ output.err = NoErr
       /\ \A j \in 1..(attempts - 1) : FailedWithoutEnd(j)
  /\ (Wrapped /\ body[currentBody].ended /\ ~overflowHandled /\ ~cancelled) =>
       output.ended

\* C3 witness: the third attempt ended cleanly after two failed ones, and
\* its two chunks are in the output.
C3_Witness ==
  /\ output.ended /\ ~overflowHandled
  /\ attempts = 3
  /\ body[1].emitted > 0
  /\ Len(output.bytes) = 2

\* C4: Transport is invoked at most retry budget + 1 times, and the attempt
\* ordinal stays within 1..attempt limit and never decreases.
C4_WithinBudget ==
  /\ [](mediateCalls <= attemptLimit /\ attempts \in 1..attemptLimit /\ mediateCalls <= attempts)
  /\ [][attempts' >= attempts /\ mediateCalls' >= mediateCalls]_vars

\* C4 witness: the last allowed attempt has failed too.
C4_Witness ==
  /\ retryCount = MaxRetry
  /\ mediateCalls = attemptLimit
  /\ FailedWithoutEnd(attemptLimit)
  /\ output.err # NoErr

\* C5: with no abort and no overflow, an output errored with a buffering
\* failure is errored with the failure of attempt retry budget + 1, after
\* exactly retry budget + 1 Transport invocations and without any byte; and
\* when that last attempt fails, the output is errored.
C5_LastFailureSurfaces ==
  /\ (~reqAborted /\ ~ctxAborted /\ ~overflowHandled
        /\ \E i \in Bodies : IsBufferingFailureOf(output.err, i)) =>
       /\ IsBufferingFailureOf(output.err, attemptLimit)
       /\ mediateCalls = attemptLimit
       /\ attempts = attemptLimit
       /\ output.bytes = <<>>
       /\ ~output.ended
  /\ (Wrapped /\ currentBody = attemptLimit /\ FailedWithoutEnd(attemptLimit)
        /\ ~overflowHandled /\ ~cancelled) =>
       /\ output.destroyed
       /\ IsBufferingFailureOf(output.err, attemptLimit)

\* C5 witness: three attempts, each failed with buffered bytes, the output
\* errored with the third attempt's error.
C5_Witness ==
  /\ retryCount = 2
  /\ ~reqAborted /\ ~ctxAborted
  /\ output.err.msg = <<"Body stream error", 3>>
  /\ \A i \in 1..3 : body[i].emitted > 0

\* The buffering listeners of body i receive an 'error' / a 'close' in this step.
ErrorSignal(i) == ~body[i].errored /\ body'[i].errored /\ "error" \in body[i].lsn
CloseSignal(i) == ~body[i].closed /\ body'[i].closed /\ "close" \in body[i].lsn
FailureSignal(i) == ErrorSignal(i) \/ CloseSignal(i)

\* The conditions C6 names, at the moment of the signal.
RetryEligible ==
  ~isOutputClosed(S) /\ ~reqAborted /\ ~ctxAborted /\ attempts < attemptLimit

\* What either signal does when a retry is eligible.
RetryStarted(i) ==
  /\ attempts' = attempts + 1
  /\ body'[i].lsn = {}
  /\ output'.bytes = <<>> /\ ~output'.ended
  /\ IF logFailed' = "debug"
       THEN output'.destroyed /\ mediateCalls' = mediateCalls /\ retryPc' = "idle"
       ELSE /\ retrying' /\ ~output'.destroyed
            /\ body'[i].destroyed
            /\ IF retryDelayFallback = 0
                 THEN mediateCalls' = mediateCalls + 1 /\ retryPc' = "mediating"
                 ELSE mediateCalls' = mediateCalls /\ retryPc' = "sleeping"

\* A new source becomes the current attempt in this step.
Promoted ==
  /\ currentBody' = mediateCalls /\ currentBody' = attempts
  /\ attempts' = attempts /\ mediateCalls' = mediateCalls
  /\ chunks' = <<>> /\ bufferedBytes' = 0 /\ ~overflowHandled'
  /\ body'[currentBody'].lsn = BufferingListeners
  /\ ~retrying' /\ retryPc' = "idle"

\* C6 as stated: once the handling of an eligible error or close is over,
\* every retry decision has had exactly one Transport invocation (stated here
\* for runs in which no log call throws, where it fails all the same).
C6_Original ==
  (Wrapped /\ retryPc = "idle" /\ logFailed = "none") => mediateCalls = attempts

\* C6 as amended: an error and a close of the buffered current source are
\* handled alike; when a retry is eligible either one discards the buffer and
\* starts one retry, which releases the source and makes exactly one Transport
\* invocation, unless its log call throws (then neither, and the output is
\* errored) or the output is closed during the inter-attempt delay (then no
\* invocation); an ok response with a body is then buffered as attempt
\* ordinal + 1.
C6_ErrorAndCloseAlike ==
  /\ [](Wrapped =>
          /\ mediateCalls <= attempts /\ attempts <= mediateCalls + 1
          /\ (retryPc = "idle" /\ mediateCalls < attempts) =>
               logFailed = "debug" \/ (retryDelayFallback > 0 /\ isOutputClosed(S)))
  /\ [][\A i \in Bodies : (FailureSignal(i) /\ RetryEligible) => RetryStarted(i)]_vars
  /\ [][(retryPc = "mediating" /\ retryPc' = "idle" /\ body'[mediateCalls].created
           /\ ~isOutputClosed(S)) => Promoted]_vars

\* C6 witness: the first attempt closed without end after buffering bytes,
\* and the second attempt is being buffered.
C6_Witness ==
  /\ body[1].closed /\ ~body[1].errored /\ ~body[1].ended /\ body[1].emitted > 0
  /\ attempts = 2 /\ currentBody = 2 /\ mediateCalls = 2
  /\ "data" \in body[2].lsn /\ ~retrying

\* C7: when the byte ceiling is exceeded the output holds every byte the
\* source has emitted, each once and in source order; when that source then
\* ends cleanly the output is ended once, without error, and Transport has
\* not been invoked again (the consumer not having cancelled).
C7_OverflowStreamsAll ==
  /\ (Wrapped /\ overflowHandled /\ "pipe" \in body[currentBody].lsn /\ ~output.destroyed) =>
       output.bytes = EmittedBytes(currentBody)
  /\ (Wrapped /\ overflowHandled /\ body[currentBody].ended /\ ~cancelled) =>
       /\ output.bytes = EmittedBytes(currentBody)
       /\ output.ended /\ output.endCalls = 1
       /\ output.err = NoErr
       /\ mediateCalls = currentBody /\ attempts = currentBody
       /\ retryPc = "idle"

\* C7 witness: ceiling 0, the first byte overflowed and was flushed, the
\* second was piped, the source ended, with retry budget left.
C7_Witness ==
  /\ maxBytes = 0 /\ overflowHandled
  /\ body[1].ended /\ output.ended
  /\ output.bytes = <<Byte(1, 1), Byte(1, 2)>>
  /\ attempts = 1 /\ mediateCalls = 1

\* C8: once the byte ceiling has been exceeded, Transport is not invoked
\* again and no new attempt is made, and a later error or close before end
\* of that source errors the output.
C8_OverflowDisablesRetry ==
  /\ [][overflowHandled =>
          mediateCalls' = mediateCalls /\ attempts' = attempts /\ currentBody' = currentBody]_vars
  /\ [][\A i \in Bodies :
          (/\ overflowHandled /\ i = currentBody /\ ~isOutputClosed(S)
           /\ \/ (~body[i].errored /\ body'[i].errored)
              \/ (~body[i].closed /\ body'[i].closed /\ ~body[i].ended))
          => (output'.destroyed /\ output'.err # NoErr)]_vars

\* C9: when a failure of the buffered current source is handled while either
\* abort signal is active, the output is errored with that failure and no
\* Transport invocation is made, whatever the attempt ordinal; an errored
\* output sees no Transport invocation afterwards.
C9_AbortStopsRetry ==
  /\ [][\A i \in Bodies :
          (FailureSignal(i) /\ ~isOutputClosed(S) /\ (reqAborted \/ ctxAborted)) =>
            /\ output'.destroyed /\ output'.err.isError
            /\ ErrorSignal(i) => output'.err.msg = <<"Body stream error", i>>
            /\ CloseSignal(i) =>
                 output'.err.msg = <<"Response body closed before end during body retry", i>>
            /\ mediateCalls' = mediateCalls /\ attempts' = attempts
            /\ retryPc' = "idle" /\ ~retrying']_vars
  /\ [][output.err # NoErr => mediateCalls' = mediateCalls]_vars

\* C9 witness: only the context's signal is active, the first attempt of three
\* allowed errored, and the output carries that error after one invocation.
C9_Witness ==
  /\ ctxAborted /\ ~reqAborted
  /\ retryCount = 2 /\ attempts = 1 /\ mediateCalls = 1
  /\ output.err.msg = <<"Body stream error", 1>>

\* C10: after the consumer has cancelled the output, in whatever phase, the
\* machine is done and the current source released as soon as the output's
\* close has been delivered; every other source is released; no Transport
\* invocation is started, no attempt is promoted and no failure changes the
\* attempt ordinal or the output.
C10_CancelHonoured ==
  /\ []((cancelled /\ ~output.eventsPending) =>
          done /\ (currentBody # Undefined => body[currentBody].destroyed))
  /\ [](cancelled =>
          \A i \in Bodies : (body[i].created /\ i # currentBody) => body[i].destroyed)
  /\ [][cancelled =>
          /\ mediateCalls' = mediateCalls /\ attempts' = attempts
          /\ currentBody' = currentBody
          /\ output'.bytes = output.bytes /\ output'.err = output.err
          /\ output'.ended = output.ended /\ output'.destroyed]_vars

\* C10 witness: the consumer cancelled while a retry's Transport call was in
\* flight; the response arrived, its body was released and not promoted.
C10_Witness ==
  /\ cancelled /\ done
  /\ body[2].created /\ body[2].destroyed /\ body[2].lsn = {}
  /\ currentBody = 1 /\ retryPc = "idle"

\* C11: when the output was closed while handleStreamError slept, the step
\* that resumes it makes no Transport invocation, leaves the output, the
\* attempt ordinal and the current source as they are, and ends the retry.
C11_CancelDuringDelay ==
  [][(retryPc = "sleeping" /\ retryPc' # "sleeping" /\ isOutputClosed(S)) =>
       /\ mediateCalls' = mediateCalls
       /\ output' = output
       /\ attempts' = attempts /\ currentBody' = currentBody
       /\ retryPc' = "idle" /\ ~retrying']_vars

\* C11 witness: the consumer cancelled during the delay of the first retry,
\* the delay has elapsed, and Transport was invoked once in all.
C11_Witness ==
  /\ retryDelayFallback > 0 /\ cancelled /\ logFailed = "none"
  /\ attempts = 2 /\ mediateCalls = 1
  /\ retryPc = "idle" /\ ~retrying
  /\ output.bytes = <<>> /\ output.err = NoErr

\* C12: when the consumer has closed the output while the Transport call of a
\* retry is in flight, the step in which the response arrives releases its
\* body if it has one, registers no listener on it, leaves the current source
\* and the output as they are and makes no Transport invocation; none is made
\* later either.
C12_CancelDuringDispatch ==
  /\ [][(retryPc = "mediating" /\ retryPc' # "mediating" /\ cancelled) =>
          /\ body'[mediateCalls].created =>
               body'[mediateCalls].destroyed /\ body'[mediateCalls].lsn = {}
          /\ currentBody' = currentBody /\ currentBody' # mediateCalls
          /\ output' = output
          /\ mediateCalls' = mediateCalls /\ attempts' = attempts
          /\ ~retrying']_vars
  /\ [][(cancelled /\ retryPc # "mediating") => retryPc' # "mediating"]_vars

\* C12 witness: the consumer cancelled while the second retry's Transport call
\* was in flight; the third response's body exists, released and unlistened.
C12_Witness ==
  /\ cancelled /\ retryPc = "idle"
  /\ mediateCalls = 3 /\ currentBody = 2
  /\ body[3].created /\ body[3].destroyed /\ body[3].lsn = {}
  /\ output.bytes = <<>>

\* Body i has already signalled a failure (an error, or a close before end).
SignalledFailure(i) == body[i].created /\ ~body[i].ended /\ (body[i].errored \/ body[i].closed)

\* Body i signals an error or a close in this step.
Signals(i) ==
  \/ (~body[i].errored /\ body'[i].errored)
  \/ (~body[i].closed /\ body'[i].closed)

C14_ClosedOutputUntouched ==
  [][(output.destroyed \/ output.ended) =>
       /\ output'.bytes = output.bytes
       /\ output'.err = output.err
       /\ output'.ended = output.ended /\ output'.endCalls = output.endCalls
       /\ output.destroyed => output'.destroyed]_vars

\* C14 witness: the consumer closed the output, then a chunk of the source
\* exceeded the byte ceiling; the flush of the buffer wrote nothing.
C14_Witness ==
  /\ cancelled /\ overflowHandled /\ logFailed = "none"
  /\ body[1].emitted > 0 /\ currentBody = 1
  /\ output.bytes = <<>> /\ ~output.ended /\ output.err = NoErr

\* The source that is the current attempt gives its first failure signal in
\* this step (an error, or a close before end) while the output is open.
CurrentSourceFails(i) ==
  /\ Wrapped /\ i = currentBody /\ ~isOutputClosed(S)
  /\ body[i].created /\ ~body[i].ended /\ ~body[i].errored /\ ~body[i].closed
  /\ body'[i].errored \/ body'[i].closed

\* A retry's Transport call completes in this step without a usable body.
RetryResponseFails ==
  /\ retryPc = "mediating" /\ retryPc' = "idle"
  /\ ~body'[mediateCalls].created
  /\ ~isOutputClosed(S)

\* C15: the output is ended at most once, errored at most once, never both;
\* and each terminal failure errors the open output in the step it happens:
\* a failure of the current source when the budget is exhausted, when an
\* abort signal is active, or after the byte ceiling was exceeded, and a
\* retry response that is not ok, has no body, or is a rejection.
C15_OneTerminalOutcome ==
  /\ [](/\ output.endCalls <= 1
        /\ ~(output.ended /\ output.err # NoErr)
        /\ output.err # NoErr => output.destroyed)
  /\ [][output.err # NoErr => output'.err = output.err]_vars
  /\ [][\A i \in Bodies :
          (/\ CurrentSourceFails(i)
           /\ overflowHandled \/ attempts >= attemptLimit \/ reqAborted \/ ctxAborted)
          => (output.err = NoErr /\ output'.err # NoErr /\ output'.destroyed
              /\ mediateCalls' = mediateCalls)]_vars
  /\ [][RetryResponseFails =>
          /\ output.err = NoErr /\ output'.destroyed
          /\ output'.err.msg \in {<<"Response body retry failed for url", mediateCalls>>,
                                  <<"mediate failed", mediateCalls>>}]_vars

\* The source that is the current attempt has signalled a failure, the output
\* is open, and no retry is under way.
FailurePending(i) ==
  /\ Wrapped /\ currentBody = i /\ SignalledFailure(i)
  /\ ~isOutputClosed(S)
  /\ ~retrying /\ retryPc = "idle"

\* The failure of source i has led to a retry or to a closed output.
FailureActedOn(i) == retrying \/ currentBody # i \/ output.destroyed

\* C16: a failure signalled by the current source while the output is open is
\* not dropped, also when it was signalled while the retrying flag of the
\* previous attempt was set: the source is never found closed, with nothing
\* more to signal, while its failure is still pending.
C16_NoFailureDropped == \A i \in Bodies : ~(FailurePending(i) /\ body[i].closed)

\* C16 as a progress property: a pending failure of the current source leads
\* to a retry or to a closed output.
C16_EventuallyActedOn == \A i \in Bodies : FailurePending(i) ~> FailureActedOn(i)

\* Two characters are the same letter, in whatever case.
SameLetter(c, d) ==
  c = d \/ \E k \in 1..Len(LowerChars) : {c, d} = {LowerChars[k], UpperChars[k]}

IdempotentNames ==
  {<<"G", "E", "T">>, <<"H", "E", "A", "D">>, <<"P", "U", "T">>,
   <<"D", "E", "L", "E", "T", "E">>, <<"O", "P", "T", "I", "O", "N", "S">>,
   <<"T", "R", "A", "C", "E">>}

\* The method of the request: the one given, GET when none is.
MethodOf(a) ==
  IF a.initMethod.given THEN a.initMethod.value
  ELSE IF a.inputIsRequest THEN a.inputMethod
  ELSE <<"G", "E", "T">>

MethodIsIdempotent(a) ==
  \E n \in IdempotentNames :
    /\ Len(n) = Len(MethodOf(a))
    /\ \A k \in 1..Len(n) : SameLetter(n[k], MethodOf(a)[k])

\* The payload of the request is a single-read stream.
PayloadIsStream(a) ==
  IF a.initBody.given THEN a.initBody.value = "stream"
  ELSE a.inputIsRequest /\ a.inputBody = "stream"

UnsafeAllowed(a) == a.allowUnsafe.given /\ a.allowUnsafe.value

\* The decision C17 describes, in its order.
ExpectedDecision(a) ==
  IF ~a.budget.given \/ a.budget.value < 1 THEN "budget"
  ELSE IF ~MethodIsIdempotent(a) /\ ~UnsafeAllowed(a) THEN "method"
  ELSE IF PayloadIsStream(a) /\ ~UnsafeAllowed(a) THEN "payload"
  ELSE "pass"

\* C17: test() rejects for the retry budget when it is absent or below 1,
\* whatever allowUnsafe is; else for the method when it is not, in any letter
\* case, one of GET, HEAD, PUT, DELETE, OPTIONS, TRACE (GET when none is
\* given) and allowUnsafe is not set; else for the payload when it is a stream
\* and allowUnsafe is not set; and passes otherwise.
C17_GateDecision == gateResult # "none" => gateResult = ExpectedDecision(gate)

\* C17 witness: a trace request written "tracE" with a stream body passed
\* because allowUnsafe is set.
C17_Witness ==
  /\ gateResult = "pass"
  /\ gate.initMethod = Given(<<"t", "r", "a", "c", "E">>)
  /\ gate.initBody = Given("stream")
  /\ gate.allowUnsafe = Given(TRUE)
  /\ gate.budget = Given(1)

\* C18: for a request that fails the gate, Transport is never invoked and no
\* output is created; and test() changes nothing but its own result.
C18_RejectedNeverRuns ==
  /\ []((gateResult # "none" /\ ExpectedDecision(gate) # "pass") =>
          /\ runPc = "tested"
          /\ mediateCalls = 0 /\ responses = NoResponses
          /\ output = NewOutput /\ currentBody = Undefined
          /\ \A i \in Bodies : ~body[i].created)
  /\ [][gateResult' # gateResult =>
          /\ gateResult = "none"
          /\ UNCHANGED <<gate, retryCount, retryDelayFallback, maxBytes, reqAborted, ctxAborted,
                         mediateCalls, attempts, done, retrying, currentBody, bufferedBytes,
                         chunks, body, output, responses>>]_vars

\* C18 witness: a POST without allowUnsafe was refused for its method.
C18_Witness ==
  /\ gateResult = "method"
  /\ gate.initMethod = Given(<<"P", "O", "S", "T">>)
  /\ gate.budget = Given(2)
  /\ mediateCalls = 0

\* C19: when the first Transport response is not ok or has no body, run()
\* has returned that response itself: no output and no source exist, Transport
\* was invoked once, and nothing follows.
C19_UnsuccessfulFirstResponse ==
  /\ [](responses[1] \in {"notok", "nobody"} =>
          /\ runPc = "unwrapped"
          /\ mediateCalls = 1 /\ attempts = 1
          /\ output = NewOutput /\ currentBody = Undefined
          /\ \A i \in Bodies : ~body[i].created
          /\ retryPc = "idle" /\ ~retrying)
  /\ [][responses[1] \in {"notok", "nobody"} =>
          UNCHANGED <<runPc, mediateCalls, output, body, currentBody, retryPc>>]_vars

\* C19 witness: with two retries allowed, the first response had no body and
\* was returned as it is.
C19_Witness ==
  /\ retryCount = 2
  /\ responses[1] = "nobody"
  /\ runPc = "unwrapped" /\ mediateCalls = 1

\* C20: when the response of a retry is not ok or has no body and the output
\* is open, the step errors the output with the retry-failure error naming
\* the URL and promotes nothing; and whether the output was open or not, no
\* Transport invocation and no attempt follows, whatever budget remains.
C20_UnsuccessfulRetryResponse ==
  /\ [][\A k \in Bodies :
          (/\ k > 1 /\ responses[k] = "none" /\ responses'[k] \in {"notok", "nobody"}
           /\ ~isOutputClosed(S)) =>
            /\ output'.destroyed /\ output'.err = RetryFailedErr(k)
            /\ output'.bytes = <<>> /\ ~output'.ended
            /\ currentBody' = currentBody /\ ~body'[k].created
            /\ mediateCalls' = mediateCalls /\ attempts' = attempts
            /\ retryPc' = "idle" /\ ~retrying']_vars
  /\ [][(\E k \in Bodies : k > 1 /\ responses[k] \in {"notok", "nobody"}) =>
          /\ mediateCalls' = mediateCalls /\ attempts' = attempts
          /\ currentBody' = currentBody /\ retryPc' = "idle"]_vars

\* C20 witness: two retries allowed, the first retry's response was not ok:
\* the output carries the retry-failure error after two invocations.
C20_Witness ==
  /\ retryCount = 2 /\ attempts = 2 /\ mediateCalls = 2
  /\ responses[2] = "notok"
  /\ output.err = RetryFailedErr(2)
  /\ currentBody = 1

\* C21: a Transport call that rejects is never retried.  On the first attempt
\* run() fails and no output or source exists; on a retry, the output being
\* open, the step errors the output with the dispatch failure and ends the
\* retry; after a rejection no Transport invocation and no attempt follows,
\* whatever budget remains.
C21_DispatchFailureTerminal ==
  /\ [](responses[1] = "reject" =>
          /\ runPc = "rejected"
          /\ mediateCalls = 1 /\ attempts = 1
          /\ output = NewOutput /\ currentBody = Undefined
          /\ \A i \in Bodies : ~body[i].created)
  /\ [][\A k \in Bodies :
          (/\ k > 1 /\ responses[k] = "none" /\ responses'[k] = "reject"
           /\ ~isOutputClosed(S)) =>
            /\ output'.destroyed
            /\ output'.err.isError /\ output'.err.msg = <<"mediate failed", k>>
            /\ output'.bytes = <<>> /\ ~output'.ended
            /\ currentBody' = currentBody /\ ~body'[k].created
            /\ mediateCalls' = mediateCalls /\ attempts' = attempts
            /\ retryPc' = "idle" /\ ~retrying']_vars
  /\ [][(\E k \in Bodies : responses[k] = "reject") =>
          /\ mediateCalls' = mediateCalls /\ attempts' = attempts
          /\ currentBody' = currentBody /\ runPc' = runPc /\ retryPc' = "idle"]_vars

\* C21 witness: two retries allowed, the Transport call of the first retry
\* rejected: the output carries the dispatch failure after two invocations.
C21_Witness ==
  /\ retryCount = 2 /\ attempts = 2 /\ mediateCalls = 2
  /\ responses[2] = "reject"
  /\ output.destroyed /\ output.err.msg = <<"mediate failed", 2>>
  /\ currentBody = 1

\* C22: a failure raised while a retry is processed errors the output and
\* makes no Transport invocation.  When the log call of the retry throws,
\* after an error or after a close of the source, the step errors the output
\* with what was thrown (made a structured error) and invokes nothing, and
\* nothing is invoked later; and after such a failure, or after a rejected
\* Transport call of a retry, the output is never found open.
C22_RetryFailureErrorsOutput ==
  /\ [][(logFailed = "none" /\ logFailed' = "debug") =>
          /\ \E i \in Bodies : i = currentBody /\ FailureSignal(i)
          /\ ~output.destroyed /\ output'.destroyed
          /\ output'.err.isError /\ output'.err.msg = <<"log failed", 0>>
          /\ output'.bytes = <<>> /\ ~output'.ended
          /\ mediateCalls' = mediateCalls /\ retryPc' = "idle"]_vars
  /\ [][logFailed = "debug" =>
          mediateCalls' = mediateCalls /\ currentBody' = currentBody /\ retryPc' = "idle"]_vars
  /\ []((logFailed = "debug" \/ \E k \in Bodies : k > 1 /\ responses[k] = "reject") =>
          output.destroyed)

\* C22 witness: the first source closed before its end, the log call of the
\* retry threw a value that is no Error, and the output carries it as an
\* Error after a single invocation.
C22_Witness ==
  /\ logFailed = "debug"
  /\ body[1].closed /\ ~body[1].errored /\ ~body[1].ended
  /\ output.destroyed /\ output.err.isError /\ output.err.converted
  /\ output.err.msg = <<"log failed", 0>>
  /\ mediateCalls = 1 /\ retryCount = 2

\* C23: a failure of the warning logged when the byte ceiling is exceeded
\* reaches the output as an error: after such a failure the output is never
\* found open.
C23_OverflowLogFailureSurfaces == logFailed = "warn" => output.destroyed

\* The header without the blanks before its first and after its last
\* character that is not a blank.
TrimmedOf(h) ==
  LET inked == {k \in 1..Len(h) : h[k] \notin Whitespace}
  IN IF inked = {} THEN <<>>
     ELSE SubSeq(h, CHOOSE k \in inked : \A j \in inked : k <= j,
                    CHOOSE k \in inked : \A j \in inked : k >= j)

RECURSIVE PowerOfTen(_)
PowerOfTen(n) == IF n = 0 THEN 1 ELSE 10 * PowerOfTen(n - 1)

RECURSIVE DecimalValue(_)
DecimalValue(h) ==
  IF h = <<>> THEN 0
  ELSE digitValue(Head(h)) * PowerOfTen(Len(h) - 1) + DecimalValue(Tail(h))

\* The header is present, is made of decimal digits only once trimmed, and
\* its value is strictly greater than the configured ceiling.
AnnouncesMoreThanCeiling(cl) ==
  /\ maxBytes # Undefined
  /\ cl.given
  /\ TrimmedOf(cl.value) # <<>>
  /\ \A k \in 1..Len(TrimmedOf(cl.value)) :
       TrimmedOf(cl.value)[k] \in {"0", "1", "2", "3", "4", "5", "6", "7", "8", "9"}
  /\ DecimalValue(TrimmedOf(cl.value)) > maxBytes

\* run() receives an ok response with a body in this step.
FirstResponseArrives ==
  runPc = "mediating" /\ runPc' # "mediating" /\ inFlight.kind = "ok"

NothingCreated ==
  /\ mediateCalls = 1 /\ attempts = 1
  /\ output = NewOutput /\ currentBody = Undefined
  /\ \A i \in Bodies : ~body[i].created
  /\ retryPc = "idle" /\ ~retrying

\* C24 as stated: a first response that announces more than the ceiling is
\* returned unwrapped, every other one is wrapped.
C24_Original ==
  [][FirstResponseArrives =>
       IF AnnouncesMoreThanCeiling(inFlight.contentLength)
         THEN runPc' = "unwrapped"
         ELSE runPc' = "wrapped"]_vars

\* C24 as amended: when the first response announces more than the ceiling no
\* output is created and no retry is ever made: run() returns the response as
\* it is or, when the warning it logs on this path throws, fails with what
\* was thrown; when the header is absent, malformed, or at most the ceiling,
\* or no ceiling is configured, the body is wrapped.
C24_ContentLengthFastPath ==
  /\ [][FirstResponseArrives =>
          IF AnnouncesMoreThanCeiling(inFlight.contentLength)
            THEN \/ runPc' = "unwrapped" /\ logFailed' = "none"
                 \/ runPc' = "rejected" /\ logFailed' = "skip"
            ELSE /\ runPc' = "wrapped" /\ logFailed' = "none"
                 /\ currentBody' = 1 /\ body'[1].lsn = BufferingListeners]_vars
  /\ [](runPc \in {"unwrapped", "rejected"} => NothingCreated)
  /\ [][(runPc \in {"unwrapped", "rejected"}) =>
          UNCHANGED <<runPc, mediateCalls, attempts, output, body, currentBody, retryPc,
                      retrying, responses>>]_vars

\* C24 witness: ceiling 1, the first response was ok with a body and was
\* returned unwrapped after one invocation.
C24_Witness ==
  /\ maxBytes = MaxCeiling
  /\ responses[1] = "ok"
  /\ runPc = "unwrapped"
  /\ NothingCreated

\* C25: every Transport invocation, the first one and each retry, is handed
\* the original action with nothing changed but the mark by which test() of
\* this same actor refuses it; so the actor never wraps what it dispatched.
C25_DispatchedIsRefused ==
  \A k \in Bodies :
    IF k <= mediateCalls
      THEN /\ dispatched[k].given
           /\ test(dispatched[k].action) # "pass"
           /\ \A f \in DOMAIN gate \ {"budget"} : dispatched[k].action[f] = gate[f]
      ELSE ~dispatched[k].given

\* C25 witness: three Transport invocations were made for one request.
C25_Witness ==
  /\ mediateCalls = 3 /\ attempts = 3
  /\ \A k \in 1..3 : dispatched[k].given
  /\ test(gate) = "pass"

\* The texts of the failures that reach the machine from outside: from a
\* source, from the Transport call, from the log call of a retry.
ForeignTexts ==
  {<<"Body stream error", i>> : i \in Bodies} \cup {<<"mediate failed", k>> : k \in Bodies}
    \cup {<<"log failed", 0>>}

\* C27: whatever errors the output is an Error with a message.  A value that
\* is no Error, emitted by a source (buffered or after overflow, with an abort
\* signal active or at the attempt limit) or thrown by the Transport call or
\* by the retry's log call, reaches the output as a new Error whose message is
\* the text of that value; the step in which a source's error errors the
\* output gives it that error's text; and only values from outside are ever
\* converted.
C27_ErrorsAreStructured ==
  /\ [](output.err # NoErr => output.err.isError /\ output.err.msg # NoErr.msg)
  /\ [](output.err.converted => output.err.msg \in ForeignTexts)
  /\ [][\A i \in Bodies :
          (/\ ~body[i].errored /\ body'[i].errored
           /\ output.err = NoErr /\ output'.err # NoErr) =>
            /\ output'.err.isError
            /\ output'.err.msg =
                 (IF logFailed' = "debug" /\ logFailed = "none"
                    THEN <<"log failed", 0>> ELSE <<"Body stream error", i>>)]_vars

\* C27 witness: after the byte ceiling was exceeded the source emitted a
\* value that is no Error; the output carries an Error made from its text.
C27_Witness ==
  /\ overflowHandled /\ logFailed = "none"
  /\ body[1].errored /\ currentBody = 1
  /\ output.err.isError /\ output.err.converted
  /\ output.err.msg = <<"Body stream error", 1>>

\* The bytes held in the chunk list, in order.
RECURSIVE Buffered(_)
Buffered(cs) == IF cs = <<>> THEN <<>> ELSE Head(cs) \o Buffered(Tail(cs))

\* C28: with a byte ceiling configured, after every step either the buffer
\* holds at most ceiling bytes, or it is empty and the current source is piped
\* to the output, or the output is closed; the buffer holds bytes of the
\* current attempt only, as many as bufferedBytes counts; and once the ceiling
\* was exceeded the buffer does not grow.
C28_BufferBounded ==
  /\ []((Wrapped /\ maxBytes # Undefined) =>
          \/ Len(Buffered(chunks)) <= maxBytes
          \/ /\ chunks = <<>> /\ overflowHandled
             /\ (CanEmit(currentBody) => "pipe" \in body[currentBody].lsn)
          \/ isOutputClosed(S))
  /\ [](Wrapped =>
          /\ Buffered(chunks) = BytesOf(currentBody, 0, Len(Buffered(chunks)))
          /\ Len(Buffered(chunks)) <= body[currentBody].emitted
          /\ chunks # <<>> => Len(Buffered(chunks)) = bufferedBytes)
  /\ [][overflowHandled => Len(Buffered(chunks')) <= Len(Buffered(chunks))]_vars

\* C30: the byte ceiling is tested with "strictly greater".  Overflow mode is
\* entered in the step in which the byte count of the current attempt goes
\* from at most the ceiling to above it, and with that step the source is no
\* longer buffered; at a count equal to the ceiling the attempt is still
\* buffered and a failure of it still starts a retry; without ceiling the
\* mode is never entered; once entered it is never left: no attempt is
\* buffered and no retry made for the rest of the request.
C30_StrictCeiling ==
  /\ [](Wrapped =>
          (overflowHandled <=> (maxBytes # Undefined /\ bufferedBytes > maxBytes)))
  /\ [][(~overflowHandled /\ overflowHandled') =>
          /\ bufferedBytes <= maxBytes /\ bufferedBytes' > maxBytes
          /\ currentBody' = currentBody
          /\ body'[currentBody].lsn \cap BufferingListeners = {}
          /\ attempts' = attempts /\ mediateCalls' = mediateCalls]_vars
  /\ []((Wrapped /\ ~overflowHandled /\ CanEmit(currentBody) /\ ~retrying) =>
          "data" \in body[currentBody].lsn)
  /\ [][\A i \in Bodies :
          (FailureSignal(i) /\ RetryEligible /\ maxBytes # Undefined /\ bufferedBytes = maxBytes) =>
            (attempts' = attempts + 1 /\ ~overflowHandled')]_vars
  /\ [][overflowHandled =>
          /\ overflowHandled'
          /\ attempts' = attempts /\ mediateCalls' = mediateCalls
          /\ currentBody' = currentBody
          /\ body'[currentBody].lsn \cap BufferingListeners = {}]_vars

\* C30 witness: ceiling 1; the first attempt buffered exactly one byte, failed
\* and was retried; the second attempt is being buffered.
C30_Witness ==
  /\ maxBytes = 1 /\ maxBytes = MaxCeiling
  /\ body[1].emitted = 1 /\ FailedWithoutEnd(1)
  /\ attempts = 2 /\ currentBody = 2 /\ ~overflowHandled
  /\ "data" \in body[2].lsn
  /\ logFailed = "none"

\* The request is one the gate refuses for its method or its payload.
UnsafeRequest(a) == (~MethodIsIdempotent(a) \/ PayloadIsStream(a)) /\ ~UnsafeAllowed(a)

StartsBuffering(i) == "data" \notin body[i].lsn /\ "data" \in body'[i].lsn

\* C31: the byte counter and the chunk buffer reflect the current attempt
\* only.  Both are zero and empty in the step in which a source starts being
\* buffered; while an attempt is buffered the counter is the number of bytes
\* that attempt's source has emitted and the buffer holds those bytes; and the
\* ceiling is found exceeded only in a step after which the current source has
\* itself emitted more than the ceiling, and in every such step.
C31_CountersOfCurrentAttempt ==
  /\ [][\A i \in Bodies : StartsBuffering(i) =>
          /\ currentBody' = i
          /\ bufferedBytes' = 0 /\ chunks' = <<>> /\ ~overflowHandled'
          /\ body'[i].emitted = 0]_vars
  /\ []((Wrapped /\ ~overflowHandled) =>
          /\ bufferedBytes = body[currentBody].emitted
          /\ chunks # <<>> => Buffered(chunks) = EmittedBytes(currentBody))
  /\ [](Wrapped => bufferedBytes <= body[currentBody].emitted)
  /\ [][(~overflowHandled /\ overflowHandled') =>
          /\ maxBytes # Undefined
          /\ body[currentBody].emitted <= maxBytes
          /\ body'[currentBody].emitted > maxBytes]_vars
  /\ [][\A i \in Bodies :
          (/\ "data" \in body[i].lsn /\ body'[i].emitted # body[i].emitted
           /\ maxBytes # Undefined /\ body'[i].emitted > maxBytes) => overflowHandled']_vars

\* C31 witness: ceiling 1; the first attempt failed after one byte, and the
\* second attempt has buffered one byte of its own: two bytes were counted in
\* all, and the ceiling is not exceeded.
C31_Witness ==
  /\ maxBytes = 1
  /\ FailedWithoutEnd(1) /\ body[1].emitted = 1
  /\ currentBody = 2 /\ "data" \in body[2].lsn
  /\ body[2].emitted = 1 /\ bufferedBytes = 1 /\ Len(chunks) = 1
  /\ ~overflowHandled

\* Source i exists and has not been released (destroyed).
Unreleased(i) == body[i].created /\ ~body[i].destroyed

\* C32: at most one attempt is current, and a retry goes through its steps in
\* order.  Only the current source carries listeners, and only it can be
\* unreleased, and only while no retry is under way; the positions of a retry
\* follow one another as release, then delay (exactly when the configured
\* delay is positive), then Transport invocation, then promotion; every
\* Transport invocation of a retry leaves all sources released; and a source
\* is promoted only out of a completed Transport call, the previous source
\* being released.
C32_OneCurrentInOrder ==
  /\ [](Wrapped =>
          /\ \A i \in Bodies : (body[i].lsn # {} \/ Unreleased(i)) => i = currentBody
          /\ retryPc # "idle" =>
               /\ retrying /\ attempts = currentBody + 1
               /\ \A i \in Bodies : ~Unreleased(i)
          /\ retryPc = "sleeping" => (retryDelayFallback > 0 /\ mediateCalls = currentBody)
          /\ retryPc = "mediating" => mediateCalls = currentBody + 1)
  /\ [][retryPc' # retryPc =>
          \/ /\ retryPc = "idle" /\ retryPc' = "sleeping" /\ retryDelayFallback > 0
             /\ FailureSignal(currentBody) /\ mediateCalls' = mediateCalls
          \/ /\ retryPc = "idle" /\ retryPc' = "mediating" /\ retryDelayFallback = 0
             /\ FailureSignal(currentBody) /\ mediateCalls' = mediateCalls + 1
          \/ /\ retryPc = "sleeping" /\ retryPc' = "mediating"
             /\ mediateCalls' = mediateCalls + 1
          \/ /\ retryPc = "sleeping" /\ retryPc' = "idle" /\ isOutputClosed(S)
             /\ mediateCalls' = mediateCalls /\ currentBody' = currentBody
          \/ /\ retryPc = "mediating" /\ retryPc' = "idle"
             /\ mediateCalls' = mediateCalls]_vars
  /\ [][(Wrapped /\ mediateCalls' # mediateCalls) =>
          /\ retryPc' = "mediating"
          /\ body'[currentBody].destroyed
          /\ \A i \in Bodies : ~Unreleased(i)']_vars
  /\ [][(Wrapped /\ currentBody' # currentBody) =>
          /\ retryPc = "mediating" /\ retryPc' = "idle"
          /\ currentBody' = mediateCalls /\ currentBody' = currentBody + 1
          /\ body[currentBody].destroyed
          /\ ~body[currentBody'].created
          /\ body'[currentBody'].created /\ ~body'[currentBody'].destroyed]_vars

\* C32 witness: with a positive delay the first source errored and was
\* released, the delay elapsed, Transport was invoked and the second source
\* promoted, all before the 'close' of the first source was delivered.
C32_Witness ==
  /\ retryDelayFallback > 0
  /\ body[1].errored /\ body[1].destroyed /\ ~body[1].closed
  /\ currentBody = 2 /\ Unreleased(2) /\ body[2].lsn = BufferingListeners
  /\ mediateCalls = 2 /\ retryPc = "idle" /\ ~retrying

\* The current source, the byte ceiling having been exceeded, emits 'error' /
\* 'close' in this step.
ErrorsAfterOverflow(i) ==
  /\ Wrapped /\ overflowHandled /\ i = currentBody
  /\ ~body[i].errored /\ body'[i].errored

ClosesAfterOverflow(i) ==
  /\ Wrapped /\ overflowHandled /\ i = currentBody
  /\ ~body[i].closed /\ body'[i].closed

\* C33: after the byte ceiling was exceeded, a close of the source that has
\* not ended errors the open output with the closed-before-end error of that
\* mode, an error of the source errors the open output with that error, and a
\* close that follows a clean end changes nothing of the output, which is
\* without error and, unless the consumer closed it first, ended.
C33_StreamingFailures ==
  /\ [][\A i \in Bodies :
          (ClosesAfterOverflow(i) /\ ~body[i].ended /\ ~isOutputClosed(S)) =>
            /\ output'.destroyed /\ output'.err = ClosedAfterOverflowErr(i)
            /\ ~output'.ended
            /\ mediateCalls' = mediateCalls /\ attempts' = attempts]_vars
  /\ [][\A i \in Bodies :
          (ErrorsAfterOverflow(i) /\ ~isOutputClosed(S)) =>
            /\ output'.destroyed
            /\ output'.err.isError /\ output'.err.msg = <<"Body stream error", i>>
            /\ ~output'.ended
            /\ mediateCalls' = mediateCalls /\ attempts' = attempts]_vars
  /\ [][\A i \in Bodies :
          (ClosesAfterOverflow(i) /\ body[i].ended) =>
            /\ output' = output
            /\ output.err = NoErr
            /\ ~cancelled => output.ended /\ output.endCalls = 1]_vars

\* C33 restricted to the runs in which the warning logged at overflow returns.
C33_WhenWarningReturns ==
  /\ [][\A i \in Bodies :
          (ClosesAfterOverflow(i) /\ ~body[i].ended /\ ~isOutputClosed(S) /\ logFailed # "warn") =>
            /\ output'.destroyed /\ output'.err = ClosedAfterOverflowErr(i)
            /\ ~output'.ended
            /\ mediateCalls' = mediateCalls /\ attempts' = attempts]_vars
  /\ [][\A i \in Bodies :
          (ErrorsAfterOverflow(i) /\ ~isOutputClosed(S) /\ logFailed # "warn") =>
            /\ output'.destroyed
            /\ output'.err.isError /\ output'.err.msg = <<"Body stream error", i>>
            /\ ~output'.ended
            /\ mediateCalls' = mediateCalls /\ attempts' = attempts]_vars
  /\ [][\A i \in Bodies :
          (ClosesAfterOverflow(i) /\ body[i].ended) =>
            /\ output' = output
            /\ output.err = NoErr
            /\ ~cancelled => output.ended /\ output.endCalls = 1]_vars

\* A state the restricted form is about: the ceiling was exceeded, the source
\* closed without end, and the output carries the error of that mode.
C33_ClosedAfterOverflowReached ==
  /\ overflowHandled /\ logFailed = "none"
  /\ body[1].closed /\ ~body[1].ended /\ ~body[1].errored
  /\ output.err = ClosedAfterOverflowErr(1)

\* A retry's Transport invocation is made in this step.
RetryInvokes == Wrapped /\ mediateCalls' # mediateCalls

\* C34: the inter-attempt delay.  With a positive delay a suspension is begun
\* only by the handling of a failure of the current source, for the configured
\* duration, without an invocation in that step; every Transport invocation
\* of a retry is made by the end of such a suspension, the k-th retry after
\* exactly k suspensions, each of the configured duration.  With a delay of
\* zero there is never a suspension, every Transport invocation of a retry is
\* made in the step that handles the failure, and an eligible failure whose
\* log call returns makes it in that step.
C34_InterAttemptDelay ==
  /\ [][sleeps' # sleeps =>
          /\ retryDelayFallback > 0
          /\ sleeps' = Append(sleeps, retryDelayFallback)
          /\ retryPc = "idle" /\ retryPc' = "sleeping"
          /\ FailureSignal(currentBody)
          /\ mediateCalls' = mediateCalls]_vars
  /\ [][(RetryInvokes /\ retryDelayFallback > 0) =>
          /\ retryPc = "sleeping" /\ retryPc' = "mediating"
          /\ sleeps' = sleeps /\ Len(sleeps) = mediateCalls
          /\ \A k \in 1..Len(sleeps) : sleeps[k] = retryDelayFallback
          /\ \A i \in Bodies : ~FailureSignal(i)
          /\ mediateCalls' = mediateCalls + 1]_vars
  /\ [][(RetryInvokes /\ retryDelayFallback = 0) =>
          /\ retryPc = "idle" /\ retryPc' = "mediating"
          /\ FailureSignal(currentBody)
          /\ ~isOutputClosed(S) /\ ~output'.destroyed
          /\ mediateCalls' = mediateCalls + 1]_vars
  /\ [][\A i \in Bodies :
          (FailureSignal(i) /\ RetryEligible /\ retryDelayFallback = 0 /\ logFailed' = logFailed)
            => mediateCalls' = mediateCalls + 1]_vars
  /\ [](retryDelayFallback = 0 => (sleeps = <<>> /\ retryPc # "sleeping"))
  /\ [](retryPc = "sleeping" => Len(sleeps) = mediateCalls)

\* C34 witness: with a positive delay two retries were made, each after its
\* own suspension of the configured duration.
C34_Witness ==
  /\ retryDelayFallback = MaxDelay
  /\ sleeps = <<MaxDelay, MaxDelay>>
  /\ mediateCalls = 3 /\ attempts = 3 /\ currentBody = 3

\* The output has reached no terminal state.
OutputOpen == Wrapped /\ ~output.ended /\ ~output.destroyed

\* No source has anything more to signal, no timer and no Transport call is
\* pending: only the consumer or an abort signal can still act.
NothingPending ==
  /\ retryPc = "idle"
  /\ \A i \in Bodies : body[i].created => body[i].closed

\* C35: the output never stays open for ever.  Stated on states: the output is
\* never open when every source has closed and neither a delay nor a
\* Transport call is pending; and the attempt ordinal never exceeds the retry
\* budget + 1.
C35_NoDeadEnd ==
  /\ ~(OutputOpen /\ NothingPending)
  /\ Wrapped => (attempts <= retryCount + 1 /\ mediateCalls <= retryCount + 1)

\* C35 restricted to the runs in which the warning logged at overflow returns.
C35_NoDeadEndWhenWarningReturns ==
  /\ (OutputOpen /\ NothingPending) => logFailed = "warn"
  /\ Wrapped => (attempts <= retryCount + 1 /\ mediateCalls <= retryCount + 1)

\* What C35 assumes: the caller's Transport call completes, every source
\* that can still signal ends, errors or closes, every delay elapses, every
\* Transport call of a retry completes; and the events of a closed output are
\* delivered.  Nothing is assumed of the consumer or of the abort signals.
FairnessOfC35 ==
  /\ WF_vars(\E resp \in Responses, cl \in ContentLengths : RunMediate(resp, cl))
  /\ WF_vars(\E resp \in Responses, cl \in ContentLengths, logOk \in BOOLEAN :
               RunResponse(resp, cl, logOk))
  /\ \A i \in Bodies :
       WF_vars(\/ SrcEnd(i)
               \/ \E st \in BOOLEAN, ad \in BOOLEAN, logOk \in BOOLEAN, ls \in BOOLEAN :
                    SrcError(i, st, ad, logOk, ls)
               \/ \E logOk \in BOOLEAN, ls \in BOOLEAN : SrcClose(i, logOk, ls))
  /\ WF_vars(RetryDelayElapsed)
  /\ WF_vars(\E resp \in Responses, st \in BOOLEAN : MediateResponse(resp, st))
  /\ WF_vars(OutputClosedEvent)

SpecFairC35 == Spec /\ FairnessOfC35

\* C35 as a progress property: the output is eventually ended or destroyed,
\* or was never created.
C35_EventuallyTerminal ==
  <>(runPc \in {"unwrapped", "rejected"} \/ (Wrapped /\ (output.ended \/ output.destroyed)))

\* The same for the runs in which the warning logged at overflow returns.
C35_EventuallyTerminalWhenWarningReturns ==
  <>(\/ runPc \in {"unwrapped", "rejected"}
     \/ (Wrapped /\ (output.ended \/ output.destroyed))
     \/ logFailed = "warn")

\* A superseded source emits an event in this step: one that comes after its
\* release, or the 'close' its release causes.
SupersededEmits(i) ==
  /\ Wrapped /\ body[i].created /\ i < attempts /\ body[i].destroyed
  /\ late' # late \/ (~body[i].closed /\ body'[i].closed)

\* C36: events of a superseded source are ignored.  A step in which a source
\* emits data, end, error or close after its failure started a retry and it
\* was released changes neither the attempt ordinal, nor the current source,
\* its buffer and byte counter, nor the output, nor the position of the retry,
\* and invokes nothing; and such a source carries no listener.
C36_SupersededIgnored ==
  /\ [][\A i \in Bodies : SupersededEmits(i) =>
          UNCHANGED <<attempts, mediateCalls, currentBody, chunks, bufferedBytes,
                      overflowHandled, bodyEnded, output, done, retrying, retryPc,
                      sleeps, dispatched, responses, logFailed>>]_vars
  /\ [][late' # late =>
          \A i \in Bodies : body'[i] = body[i]]_vars
  /\ [](\A i \in Bodies : (Wrapped /\ body[i].created /\ i < attempts) => body[i].lsn = {})

\* C36 witness: the first source emitted an event after its release, and the
\* second attempt, promoted with the output open, has buffered a chunk.
C36_Witness ==
  /\ late = MaxLate
  /\ body[1].destroyed /\ attempts = 2 /\ currentBody = 2
  /\ Len(chunks) = 1 /\ bufferedBytes = body[2].emitted
  /\ "data" \in body[2].lsn /\ ~output.destroyed

\* The Transport calls made and not yet completed.
Outstanding == mediateCalls - Cardinality({k \in Bodies : responses[k] # "none"})

\* C37: at most one retry is in progress at any time.  At most one Transport
\* call is outstanding, and it is the one run() or the retry is waiting for; a
\* call is made only when none is outstanding; a retry is decided only when
\* none is in progress; and while a retry is in progress no source carries a
\* listener and the buffer and the byte counter do not change.
C37_OneRetryAtATime ==
  /\ [](Outstanding = (IF runPc = "mediating" \/ retryPc = "mediating" THEN 1 ELSE 0))
  /\ [](~(runPc = "mediating" /\ retryPc # "idle"))
  /\ [][mediateCalls' # mediateCalls =>
          /\ Outstanding = 0 /\ mediateCalls' = mediateCalls + 1
          /\ Wrapped => retrying']_vars
  /\ [][attempts' # attempts =>
          /\ ~retrying /\ retryPc = "idle" /\ Outstanding = 0
          /\ attempts' = attempts + 1 /\ retrying']_vars
  /\ [](retryPc # "idle" => retrying)
  /\ []((Wrapped /\ retrying) => \A i \in Bodies : body[i].lsn = {})
  /\ [][(retrying /\ retrying') => UNCHANGED <<chunks, bufferedBytes, currentBody>>]_vars

\* C37 witness: the source of the second attempt signalled an error while
\* the retry that fetched it was still in progress; no second retry was
\* started and nothing is outstanding.
C37_Witness ==
  /\ retryCount = 2 /\ attempts = 2 /\ mediateCalls = 2 /\ currentBody = 2
  /\ body[2].errored /\ ~body[2].closed /\ "close" \in body[2].lsn
  /\ ~retrying /\ retryPc = "idle" /\ Outstanding = 0
  /\ ~output.destroyed

\* The current source, buffered to its clean end, emits 'close' in this step.
ClosesAfterBufferedEnd(i) ==
  /\ Wrapped /\ ~overflowHandled /\ i = currentBody
  /\ body[i].ended
  /\ ~body[i].closed /\ body'[i].closed

\* C38: while buffering, a close that follows the clean end of the current
\* source is a no-op.  After a clean end the source carries no listener and,
\* the consumer not having closed the output, the buffer has been written to
\* the output and emptied and the output ended once; the close that follows
\* changes nothing but the source's own flags: no retry, no Transport
\* invocation, no error on the output.
C38_CloseAfterEndIsNoOp ==
  /\ []((Wrapped /\ ~overflowHandled /\ body[currentBody].ended) =>
          /\ done /\ body[currentBody].lsn = {}
          /\ ~cancelled =>
               /\ chunks = <<>>
               /\ output.ended /\ output.endCalls = 1
               /\ output.bytes = EmittedBytes(currentBody)
               /\ output.err = NoErr)
  /\ [][\A i \in Bodies : ClosesAfterBufferedEnd(i) =>
          /\ UNCHANGED <<attempts, mediateCalls, currentBody, retrying, retryPc, done,
                         chunks, bufferedBytes, output, sleeps, dispatched, responses,
                         logFailed>>
          /\ output.err = NoErr]_vars

\* C38 witness: with two retries left the first source ended and then closed;
\* the output is ended with the bytes of that source after one invocation, and
\* the consumer has not yet read it to its end.
C38_Witness ==
  /\ retryCount = 2 /\ attempts = 1 /\ mediateCalls = 1
  /\ ~overflowHandled
  /\ body[1].ended /\ body[1].closed /\ body[1].emitted = 2
  /\ output.ended /\ ~output.destroyed /\ output.bytes = EmittedBytes(1)
  /\ ~retrying /\ retryPc = "idle"

Aborted == reqAborted \/ ctxAborted

\* C39: the abort signals are consulted only when a failure is handled.  A
\* step in which a signal becomes active changes nothing else.  With a signal
\* active, the end of the inter-attempt delay still invokes Transport when the
\* output is open, and an ok response with a body that arrives with the output
\* open is still promoted and buffered as the next attempt; and a failure
\* signal of the current source that is handled with a signal active errors
\* the output and starts no retry.
C39_AbortOnlyAtFailure ==
  /\ [][(reqAborted' # reqAborted \/ ctxAborted' # ctxAborted) =>
          UNCHANGED <<output, done, attempts, mediateCalls, currentBody, retrying, retryPc,
                      chunks, bufferedBytes, overflowHandled, body, runPc, cancelled,
                      sleeps, dispatched, responses, logFailed>>]_vars
  /\ [][(Aborted /\ retryPc = "sleeping" /\ retryPc' # "sleeping" /\ ~isOutputClosed(S)) =>
          /\ retryPc' = "mediating" /\ mediateCalls' = mediateCalls + 1
          /\ dispatched'[mediateCalls'].given
          /\ retrying' /\ output' = output]_vars
  /\ [][(Aborted /\ retryPc = "mediating" /\ retryPc' = "idle"
           /\ body'[mediateCalls].created /\ ~isOutputClosed(S)) =>
          /\ Promoted
          /\ output' = output]_vars
  /\ [][\A i \in Bodies :
          (Aborted /\ FailureSignal(i) /\ ~isOutputClosed(S)) =>
            /\ output'.destroyed /\ output'.err.isError
            /\ attempts' = attempts /\ mediateCalls' = mediateCalls
            /\ retryPc' = "idle" /\ ~retrying']_vars

\* C39 witness: with a positive delay, a retry's Transport call is in flight
\* with both abort signals active and the output open; no signal was active
\* when the failure was handled, or no retry would have been decided.
C39_Witness ==
  /\ retryDelayFallback > 0
  /\ reqAborted /\ ctxAborted
  /\ retryPc = "mediating" /\ retrying /\ mediateCalls = 2 /\ attempts = 2
  /\ sleeps = <<retryDelayFallback>>
  /\ ~output.destroyed /\ ~done

\* Reached as well: a signal active during the inter-attempt delay, and a
\* source promoted and buffering bytes with a signal active.
C39_AbortedWhileSleeping == retryPc = "sleeping" /\ Aborted /\ ~isOutputClosed(S)
C39_BufferingWhileAborted ==
  /\ Aborted /\ currentBody = 2 /\ "data" \in body[2].lsn /\ Len(chunks) > 0

====
